---------------------------- MODULE Spec2Model ----------------------------
(***************************************************************************)
(* State machine of the GINKA character composer: the scene held by        *)
(* ModernCharacterComposer (ui/main_window.py), the CharacterInstance      *)
(* objects it owns (models/__init__.py) with their custom components       *)
(* (models/custom_component.py), the Canvas paint order                    *)
(* (widgets/canvas.py), the ImageLoader worker (models/__init__.py) and    *)
(* the layer type advisor (utils/position_alignment.py).                   *)
(*                                                                         *)
(* Python objects are kept on a heap: an instance record holds references  *)
(* (lo, cl, li, cc) to its layer_order list, composition_layers dict,      *)
(* layer_images dict and CharacterCustomComponents object, and every       *)
(* mutation goes through the reference, so that sharing one list between   *)
(* two instances is expressible.                                           *)
(*                                                                         *)
(* Numbers: x_offset and y_offset are the integers of their spin boxes;    *)
(* scale is the decimal of its spin box, held in hundredths (100 is 1.0).  *)
(* The draw positions and scales of the export are Python floats: they are *)
(* computed in binary floating point with round-to-nearest-even, with a    *)
(* significand of MantissaBits bits in place of the 53 of binary64, which  *)
(* the integers of the model checker cannot hold.                          *)
(***************************************************************************)
EXTENDS Integers, Sequences, FiniteSets, TLC

-----------------------------------------------------------------------------
(* Bounds of the model *)

\* uuid4 values available to CharacterInstance.__init__; a value is never reused
MaxIds == 4
\* largest |z_order| the z-order handlers may produce
MaxZ == 2
\* decode tasks queued when a handler may add more, and emissions awaiting delivery
MaxTasks == 1
\* custom components added to one instance in a run
MaxComponents == 1
\* instances created in a run that edits their layers
MaxEdited == 2
\* instances created in a run that exports
MaxExported == 1
\* custom layers one instance holds at a time
MaxCustomLayers == 3
\* components one set holds, and adds without a z_index between two clear_all
MaxAdded == 3
\* set_component_z_index, move_component_to_front and from_dict calls between two clear_all
MaxRebases == 1
\* move_component_up, move_component_down and move_component_to_back calls between two clear_all
MaxNudges == 2

\* bits of the significand of a float
MantissaBits == 12

(* Program constants *)

\* scale spin box resolution: 1.0 is ScaleUnit hundredths
ScaleUnit == 100
\* duplicateCharacterInstance shifts the copy by this many pixels on each axis
DuplicateShift == 100
\* export size without a background
BaseWidth == 1920
BaseHeight == 1080
\* CharacterCustomComponents._next_z_index baseline
ZIndexBase == 10000
\* _next_z_index after from_dict of a dict without components
EmptyDictZIndex == 1000

-----------------------------------------------------------------------------
(* The catalog (character_analysis.json) and the assets on disk *)

None == 0
InstanceIds == 1..MaxIds

\* archetypes of character_data and the size variant used
Characters == {"ginka", "sumire"}
Sizes == {"m"}

\* layer ids of character_data[c]["layer_mapping"][s]["未分组"]
CatalogIds(c, s) == IF c \in Characters /\ s \in Sizes THEN {1, 2, 3} ELSE {}

\* os.path.exists("cr_data_png/<c>_<s>_<id>.png"): layer 3 has no image file
AssetExists(c, s, id) == id \in CatalogIds(c, s) /\ id # 3

\* layer['position'] of a catalog layer
LayerX(id) == IF id = 1 THEN -27 ELSE IF id = 2 THEN -20 ELSE 4
LayerY(id) == IF id = 1 THEN -40 ELSE IF id = 2 THEN 30 ELSE 8

-----------------------------------------------------------------------------
VARIABLES
    character_instances,   \* ModernCharacterComposer.character_instances: keys in insertion order
    canvas_instances,      \* Canvas.character_instances: keys in insertion order
    inst,                  \* the CharacterInstance objects, by instance_id
    layer_order,           \* heap: list objects (layer_order)
    composition_layers,    \* heap: dict objects (composition_layers), keys in insertion order
    layer_images,          \* heap: dict objects (layer_images), the keys holding an image
    layer_info,            \* heap: the 'z_order' entries of the layer dicts in composition_layers
    custom_components,     \* heap: CharacterCustomComponents objects
    current_instance,      \* instance_id of current_instance, or None
    next_z_order,          \* ModernCharacterComposer.next_z_order
    used_ids,              \* uuid4 values handed out so far
    instance_list,         \* character_tab.instance_list: the instance_id of each row
    instance_row,          \* its current row, -1 when none
    layer_order_list,      \* layer_tab.layer_order_list: the layer_id of each row
    layer_row,             \* its current row, -1 when none
    tasks,                 \* ImageLoader.tasks
    loader_pc,             \* ImageLoader thread: "idle", "run", "exit", "fin"
    loader_i,              \* position of run()'s iteration over tasks
    signals,               \* imageLoaded emissions queued for the main thread
    scene_file,            \* content of the scene JSON file
    returned               \* the last call of a query method: its arguments and its result

vars == << character_instances, canvas_instances, inst, layer_order,
           composition_layers, layer_images, layer_info, custom_components,
           current_instance, next_z_order, used_ids, instance_list,
           instance_row, layer_order_list, layer_row, tasks, loader_pc,
           loader_i, signals, scene_file, returned >>

sceneVars == << character_instances, canvas_instances, inst, next_z_order, used_ids >>
heapVars == << layer_order, composition_layers, layer_images, layer_info,
              custom_components >>
listVars == << instance_list, instance_row, layer_order_list, layer_row >>
loaderVars == << tasks, loader_pc, loader_i, signals >>

-----------------------------------------------------------------------------
(* Sequences as Python lists and insertion-ordered dict keys *)

Range(s) == { s[i] : i \in DOMAIN s }

Contains(s, x) == \E i \in DOMAIN s : s[i] = x

\* list.index(x) for x in s
IndexOf(s, x) == CHOOSE i \in DOMAIN s : s[i] = x /\ \A j \in 1..(i - 1) : s[j] # x

RemoveAt(s, i) == SubSeq(s, 1, i - 1) \o SubSeq(s, i + 1, Len(s))

\* list.remove(x): the first occurrence only
ListRemove(s, x) == IF Contains(s, x) THEN RemoveAt(s, IndexOf(s, x)) ELSE s

\* list.insert(pos, x) with a 0-based pos in 0..len
ListInsert(s, pos, x) == SubSeq(s, 1, pos) \o << x >> \o SubSeq(s, pos + 1, Len(s))

\* d[k] = v on the keys of a dict: a new key goes last, an old key keeps its place
DictSet(keys, k) == IF Contains(keys, k) THEN keys ELSE Append(keys, k)

\* the key is left in the dict
KeepKey(keys, k) == keys

\* del d[k]
DictDel(keys, k) == ListRemove(keys, k)

FilterSeq(s, Keep(_)) ==
    LET F[i \in 0..Len(s)] ==
            IF i = 0 THEN << >>
            ELSE IF Keep(s[i]) THEN Append(F[i - 1], s[i]) ELSE F[i - 1]
    IN F[Len(s)]

NoDuplicates(s) == \A i, j \in DOMAIN s : i # j => s[i] # s[j]

MaxOf(S) == CHOOSE x \in S : \A y \in S : y <= x
MinOf(S) == CHOOSE x \in S : \A y \in S : x <= y

\* sorted(): a stable insertion sort
\* x goes before the first element that must come after it
InsertStable(sorted, x, Before(_, _)) ==
    LET later == { i \in DOMAIN sorted : Before(x, sorted[i]) }
        pos == IF later = {} THEN Len(sorted)
               ELSE (CHOOSE i \in later : \A j \in later : i <= j) - 1
    IN ListInsert(sorted, pos, x)

StableSort(s, Before(_, _)) ==
    LET F[i \in 0..Len(s)] ==
            IF i = 0 THEN << >> ELSE InsertStable(F[i - 1], s[i], Before)
    IN F[Len(s)]


-----------------------------------------------------------------------------
(* CharacterInstance and CharacterCustomComponents objects *)

\* CharacterCustomComponents.__init__
\* components and _next_z_index, and the history of the object: auto_added counts the
\* add_component calls without a z_index since __init__ or the last clear_all, rebases
\* the set_component_z_index, move_component_to_front and from_dict calls since, and
\* nudges the move_component_up, move_component_down and move_component_to_back calls
NewCustomComponents ==
    [components |-> << >>, next_z_index |-> ZIndexBase, auto_added |-> 0,
     rebases |-> 0, nudges |-> 0]

\* the slot of an instance_id that names no live object
NoInstance ==
    [character_name |-> "", size |-> "", x_offset |-> 0, y_offset |-> 0,
     scale |-> ScaleUnit, visible |-> FALSE, z_order |-> 0,
     lo |-> None, cl |-> None, li |-> None, cc |-> None]

\* CharacterInstance.__init__: identity transform, visible, z_order 0, and four
\* fresh objects (an empty list, two empty dicts, a CharacterCustomComponents)
CharacterInstance(id, name, size) ==
    [character_name |-> name, size |-> size, x_offset |-> 0, y_offset |-> 0,
     scale |-> ScaleUnit, visible |-> TRUE, z_order |-> 0,
     lo |-> id, cl |-> id, li |-> id, cc |-> id]

Live == Range(character_instances)

\* the fields of instance i, read through its references
LayerOrderOf(i) == layer_order[inst[i].lo]
CompositionOf(i) == composition_layers[inst[i].cl]
ImagesOf(i) == layer_images[inst[i].li]
InfoOf(i) == layer_info[inst[i].cl]
ComponentsOf(i) == custom_components[inst[i].cc]

\* the 'z_order' entries of a dict of layers once the key layer_id is deleted or is
\* given a layer that has no 'z_order'
InfoWithout(info, layer_id) == { e \in info : e.layer_id # layer_id }

\* layer.get('z_order', 0) of the layer under the key layer_id
ZOrderOfLayer(info, layer_id) ==
    IF \E e \in info : e.layer_id = layer_id
    THEN (CHOOSE e \in info : e.layer_id = layer_id).z_order
    ELSE 0

\* the argument z_index of add_component: omitted (None), or given
Omitted == [given |-> FALSE, value |-> 0]
Given(z_index) == [given |-> TRUE, value |-> z_index]

\* image files given to add_component
ComponentImages == { "hat.png" }

\* Image.open(image_path) in CustomComponent.__post_init__: the width and height of
\* the image, or no image (width 0) when the file cannot be opened
NoImage == [width |-> 0, height |-> 0]
ImageOpen(image_path) ==
    IF image_path = "hat.png" THEN [width |-> 10, height |-> 20] ELSE NoImage

\* CustomComponent(name, image_path, x, y, scale, z_index, visible), scale in hundredths
CustomComponent(name, image_path, x, y, scale, z_index, visible) ==
    [name |-> name, x |-> x, y |-> y, scale |-> scale, z_index |-> z_index,
     visible |-> visible, image |-> ImageOpen(image_path)]

\* CustomComponent(name=name, image_path=image_path, z_index=z_index): the other
\* fields take the defaults of the dataclass
DefaultComponent(name, image_path, z_index) ==
    CustomComponent(name, image_path, 0, 0, ScaleUnit, z_index, TRUE)

\* CharacterCustomComponents.add_component(name, image_path, z_index)
add_component_to(cc, name, image_path, z_index) ==
    IF z_index.given
    THEN [cc EXCEPT !.components =
                        Append(@, DefaultComponent(name, image_path, z_index.value))]
    ELSE [cc EXCEPT !.components =
                        Append(@, DefaultComponent(name, image_path, cc.next_z_index)),
                    !.next_z_index = @ + 1,
                    !.auto_added = @ + 1]

\* CharacterCustomComponents.remove_component_by_name(name)
remove_component_by_name_from(cc, name) ==
    [cc EXCEPT !.components = FilterSeq(cc.components, LAMBDA c : c.name # name)]

\* clear_all without the reset of _next_z_index
clear_keeping_counter(cc) ==
    [cc EXCEPT !.components = << >>, !.auto_added = 0, !.rebases = 0, !.nudges = 0]

\* CharacterCustomComponents.clear_all()
clear_all_of(cc) == NewCustomComponents

\* max([c.z_index for c in components], default=0)
MaxZIndex(components) ==
    IF components = << >> THEN 0
    ELSE MaxOf({ components[k].z_index : k \in DOMAIN components })

\* CharacterCustomComponents.set_component_z_index(components[k], z_index)
set_component_z_index_of(cc, k, z_index) ==
    LET components == [cc.components EXCEPT ![k].z_index = z_index]
    IN [cc EXCEPT !.components = components,
                  !.next_z_index = MaxOf({ @, MaxZIndex(components) + 1 }),
                  !.rebases = @ + 1]

\* CharacterCustomComponents.move_component_to_front(components[k])
move_component_to_front_of(cc, k) ==
    LET z_index == MaxZIndex(cc.components) + 1
    IN [cc EXCEPT !.components[k].z_index = z_index,
                  !.next_z_index = MaxOf({ @, z_index + 1 }),
                  !.rebases = @ + 1]

\* CharacterCustomComponents.get_components_sorted_by_z(): the positions in
\* components of the components, sorted by z_index; sorted() is stable
get_components_sorted_by_z(components) ==
    StableSort([k \in DOMAIN components |-> k],
               LAMBDA a, b : components[a].z_index < components[b].z_index)

\* CharacterCustomComponents.move_component_up(components[k])
move_component_up_of(cc, k) ==
    [cc EXCEPT !.components[k].z_index = @ + 1, !.nudges = @ + 1]

\* CharacterCustomComponents.move_component_down(components[k])
move_component_down_of(cc, k) ==
    [cc EXCEPT !.components[k].z_index = MaxOf({ 0, @ - 1 }), !.nudges = @ + 1]

\* min([c.z_index for c in components], default=0)
MinZIndex(components) ==
    IF components = << >> THEN 0
    ELSE MinOf({ components[k].z_index : k \in DOMAIN components })

\* the component takes the least z_index of the set, not one below it
move_to_min_z_index(cc, k) ==
    [cc EXCEPT !.components[k].z_index = MinZIndex(cc.components), !.nudges = @ + 1]

\* CharacterCustomComponents.move_component_to_back(components[k])
move_component_to_back_of(cc, k) ==
    [cc EXCEPT !.components[k].z_index = MinZIndex(cc.components) - 1,
               !.nudges = @ + 1]

\* CustomComponent.get_bounds(): int(image.width * scale) for a scale that is a binary
\* fraction, where the product is exact
get_bounds(c) ==
    IF c.image = NoImage THEN << 0, 0, 0, 0 >>
    ELSE << c.x, c.y, c.x + (c.image.width * c.scale) \div ScaleUnit,
            c.y + (c.image.height * c.scale) \div ScaleUnit >>

\* CustomComponent.contains_point(x, y)
contains_point(c, x, y) ==
    LET bounds == get_bounds(c)
    IN bounds[1] <= x /\ x <= bounds[3] /\ bounds[2] <= y /\ y <= bounds[4]

\* sorted(visible components, key=z_index, reverse=True), as positions in components
SortedVisibleReverse(components) ==
    StableSort(FilterSeq([k \in DOMAIN components |-> k],
                         LAMBDA k : components[k].visible),
               LAMBDA a, b : components[a].z_index > components[b].z_index)

\* CharacterCustomComponents.get_component_at_position(x, y): the position in
\* components of the component returned, None when the loop ends without a match
get_component_at_position_of(components, x, y) ==
    LET sorted_components == SortedVisibleReverse(components)
        matches == { j \in DOMAIN sorted_components :
                        contains_point(components[sorted_components[j]], x, y) }
    IN IF matches = {} THEN None ELSE sorted_components[MinOf(matches)]

\* CharacterCustomComponents.from_dict(data), data['components'] with every key present
components_from_dict(cc, data) ==
    [cc EXCEPT !.components =
                   [k \in DOMAIN data |->
                       CustomComponent(data[k].name, data[k].image_path, data[k].x,
                                       data[k].y, data[k].scale, data[k].z_index,
                                       data[k].visible)],
               !.next_z_index = IF data # << >> THEN MaxZIndex(data) + 1
                                ELSE EmptyDictZIndex,
               !.rebases = @ + 1]

-----------------------------------------------------------------------------
(* The sort keys of the scene *)

\* the values of the dict as they stand, not sorted
InsertionOrder(ids, I) == ids

\* sorted(instances.values(), key=lambda x: x.z_order) over a dict with keys `ids`
SortedByZOrder(ids, I) == StableSort(ids, LAMBDA a, b : I[a].z_order < I[b].z_order)

\* sorted(..., key=lambda x: x.z_order, reverse=True): equal keys keep their order
SortedByZOrderReverse(ids, I) == StableSort(ids, LAMBDA a, b : I[a].z_order > I[b].z_order)

-----------------------------------------------------------------------------
(* Python floats: m * 2^e with m = 0 or 2^(MantissaBits-1) <= |m| < 2^MantissaBits *)

Abs(n) == IF n < 0 THEN -n ELSE n

\* the number of bits of n > 0
BitLen(n) == CHOOSE b \in 1..31 : 2^(b - 1) <= n /\ (b = 31 \/ n < 2^b)

\* n / 2^k for n >= 0, k >= 1, rounded to the nearest integer, a tie to the even one
RoundShift(n, k) ==
    LET q == n \div 2^k
        r == n % 2^k
        half == 2^(k - 1)
    IN IF r > half \/ (r = half /\ q % 2 = 1) THEN q + 1 ELSE q

\* the float nearest to n * 2^e
Float(n, e) ==
    IF n = 0 THEN [m |-> 0, e |-> 0]
    ELSE LET sign == IF n < 0 THEN -1 ELSE 1
             len == BitLen(Abs(n))
             k == len - MantissaBits
         IN IF k <= 0
            THEN [m |-> n * 2^(-k), e |-> e + k]
            ELSE LET q == RoundShift(Abs(n), k)
                 IN IF q = 2^MantissaBits
                    THEN [m |-> sign * 2^(MantissaBits - 1), e |-> e + k + 1]
                    ELSE [m |-> sign * q, e |-> e + k]

\* a + b: the exact sum, rounded; a term below an eighth of the other's last place
\* does not change the result
FAdd(a, b) ==
    IF a.m = 0 THEN b
    ELSE IF b.m = 0 THEN a
    ELSE IF a.e - b.e > MantissaBits + 2 THEN a
    ELSE IF b.e - a.e > MantissaBits + 2 THEN b
    ELSE IF a.e >= b.e THEN Float(a.m * 2^(a.e - b.e) + b.m, b.e)
    ELSE Float(b.m * 2^(b.e - a.e) + a.m, a.e)

FNeg(a) == [a EXCEPT !.m = -a.m]

FSub(a, b) == FAdd(a, FNeg(b))

\* a * b: the exact product, rounded
FMul(a, b) == Float(a.m * b.m, a.e + b.e)

\* float(n) of an int
FromInt(n) == Float(n, 0)

\* the float nearest to the decimal s / 100, s > 0: the quotient to two bits more
\* than the significand, the last one set when the division leaves a remainder
FromHundredths(s) ==
    LET enough == 100 * 2^(MantissaBits + 1)
        k == CHOOSE j \in 0..(MantissaBits + 8) : s * 2^j >= enough
        q == (s * 2^k) \div 100
        sticky == IF (s * 2^k) % 100 = 0 THEN 0 ELSE 1
    IN Float(2 * q + sticky, -k - 1)

-----------------------------------------------------------------------------
(* The draw order *)

\* the layers of layer_order that are selected, decoded or not
SelectedLayers(order, comp, images) == FilterSeq(order, LAMBDA l : Contains(comp, l))

\* the layers of one instance that are drawn, in layer_order
DrawnLayers(order, comp, images) ==
    FilterSeq(order, LAMBDA l : Contains(comp, l) /\ l \in images)

\* int(base * scale_multiplier) // 2
CenterX(m) == (BaseWidth * m) \div 2
CenterY(m) == (BaseHeight * m) \div 2

\* layer_pos * scale * scale_multiplier + offset, then += center: the offset is
\* not multiplied
UnscaledOffsetPosition(layer_pos, scale, offset, m, center) ==
    FAdd(FAdd(FMul(FMul(FromInt(layer_pos), scale), FromInt(m)), FromInt(offset)),
         FromInt(center))

\* (layer_pos * scale + offset) * scale_multiplier, then += center
FinalPosition(layer_pos, scale, offset, m, center) ==
    FAdd(FMul(FAdd(FMul(FromInt(layer_pos), scale), FromInt(offset)), FromInt(m)),
         FromInt(center))

\* one entry of all_render_items
RenderItem(i, l, m) ==
    LET scale == FromHundredths(inst[i].scale)
    IN [instance_id |-> i, layer_id |-> l,
        x |-> FinalPosition(LayerX(l), scale, inst[i].x_offset, m, CenterX(m)),
        y |-> FinalPosition(LayerY(l), scale, inst[i].y_offset, m, CenterY(m)),
        scale |-> FMul(scale, FromInt(m))]

\* the items one instance contributes
InstanceItems(i, m) ==
    LET drawn == DrawnLayers(LayerOrderOf(i), CompositionOf(i), ImagesOf(i))
    IN [k \in 1..Len(drawn) |-> RenderItem(i, drawn[k], m)]

\* the instances in paint order that are painted
VisibleInOrder(ids) ==
    FilterSeq(SortedByZOrder(ids, inst), LAMBDA i : inst[i].visible)

Flatten(ss) ==
    LET F[i \in 0..Len(ss)] == IF i = 0 THEN << >> ELSE F[i - 1] \o ss[i]
    IN F[Len(ss)]

\* ModernCharacterComposer.renderCharactersForExport: all_render_items
renderCharactersForExport(m) ==
    LET order == VisibleInOrder(character_instances)
    IN Flatten([k \in 1..Len(order) |-> InstanceItems(order[k], m)])

\* Canvas.paintEvent with Canvas.drawCharacterInstance: the drawPixmap calls in order,
\* each with the layer position it is given under the instance's painter transform
paintEvent ==
    LET order == VisibleInOrder(canvas_instances)
        Draws(i) ==
            LET drawn == DrawnLayers(LayerOrderOf(i), CompositionOf(i), ImagesOf(i))
            IN [k \in 1..Len(drawn) |->
                   [instance_id |-> i, layer_id |-> drawn[k],
                    x |-> LayerX(drawn[k]), y |-> LayerY(drawn[k])]]
    IN Flatten([k \in 1..Len(order) |-> Draws(order[k])])

-----------------------------------------------------------------------------
(* The two list widgets *)

\* updateInstanceList: one row per instance, highest z_order first
InstanceListRows(ids, I) == SortedByZOrderReverse(ids, I)

\* updateLayerOrderDisplay: one row per id of layer_order that is in composition_layers
LayerOrderRows(cur, I, LO, CL) ==
    IF cur = None THEN << >>
    ELSE FilterSeq(LO[I[cur].lo], LAMBDA l : Contains(CL[I[cur].cl], l))

\* QListWidget.clear() in updateInstanceList drops the current row; when there was
\* one, currentRowChanged(-1) runs onInstanceSelected(-1): current_instance = None
AfterListClear(cur) == IF instance_row # -1 THEN None ELSE cur

-----------------------------------------------------------------------------
(* Initial state: the window after construction, and a scene file on disk *)

NoFile == [exists |-> FALSE, characters |-> << >>]

\* no query method was called yet
NoCall == [method |-> "", args |-> << >>, component |-> None, layer_type |-> ""]

\* one record of the "characters" array of a scene file
SceneRecord(name, x, y, sc, vis, z, layers, order) ==
    [character_name |-> name, size |-> "m", x_offset |-> x, y_offset |-> y,
     scale |-> sc, visible |-> vis, z_order |-> z, layers |-> layers,
     layer_order |-> order]

\* a scene file written against a catalog that still had layer 9: a hidden
\* instance and two visible ones, all on one z_order
ExternalScene ==
    [exists |-> TRUE,
     characters |-> << SceneRecord("ginka", 0, 0, ScaleUnit, FALSE, 1, << 1 >>, << 1 >>),
                       SceneRecord("ginka", 40, 0, 50, TRUE, 1, << 3, 9, 2 >>, << 2, 9, 3 >>),
                       SceneRecord("ginka", 0, 0, ScaleUnit, TRUE, 1, << 2 >>, << 2 >>) >>]

\* a scene file with one instance, written against the catalog that had layer 9
StaleScene ==
    [exists |-> TRUE,
     characters |-> << SceneRecord("ginka", 40, 0, 50, TRUE, 1, << 3, 9, 2 >>, << 2, 9, 3 >>) >>]

\* scene files found on disk at start
ExternalScenes == { NoFile, ExternalScene, StaleScene }

Init ==
    /\ character_instances = << >>
    /\ canvas_instances = << >>
    /\ inst = [i \in InstanceIds |-> NoInstance]
    /\ layer_order = [r \in InstanceIds |-> << >>]
    /\ composition_layers = [r \in InstanceIds |-> << >>]
    /\ layer_images = [r \in InstanceIds |-> {}]
    /\ layer_info = [r \in InstanceIds |-> {}]
    /\ custom_components = [r \in InstanceIds |-> NewCustomComponents]
    /\ current_instance = None
    /\ next_z_order = 0
    /\ used_ids = {}
    /\ instance_list = << >>
    /\ instance_row = -1
    /\ layer_order_list = << >>
    /\ layer_row = -1
    /\ tasks = << >>
    /\ loader_pc = "idle"
    /\ loader_i = 0
    /\ signals = << >>
    /\ scene_file \in ExternalScenes
    /\ returned = NoCall

\* the same, with the scene file on disk named
InitWith(file) == Init /\ scene_file = file

InitNoFile == InitWith(NoFile)
InitExternalScene == InitWith(ExternalScene)
InitStaleScene == InitWith(StaleScene)

-----------------------------------------------------------------------------
(* Instance handlers of ModernCharacterComposer *)

\* objects no live instance refers to are collected: their slot is empty again
Collect(H, ids, I, Ref(_), empty) ==
    [r \in InstanceIds |-> IF \E i \in Range(ids) : Ref(I[i]) = r THEN H[r] ELSE empty]

\* addCharacterInstance(character_name, size); id is the uuid4 drawn for the instance
addCharacterInstance(name, size, id) ==
    /\ name # ""
    /\ id \in InstanceIds \ used_ids
    /\   LET I == [inst EXCEPT ![id] =
                      [CharacterInstance(id, name, size) EXCEPT !.z_order = next_z_order]]
             ids == Append(character_instances, id)
             rows == InstanceListRows(ids, I)
             old == AfterListClear(current_instance)
             \* instance_list.setCurrentRow(len - 1) runs onInstanceSelected on that row
             cur == rows[Len(ids)]
         IN /\ inst' = I
            /\ used_ids' = used_ids \cup {id}
            /\ next_z_order' = next_z_order + 1
            /\ character_instances' = ids
            /\ canvas_instances' = Append(canvas_instances, id)
            /\ instance_list' = rows
            /\ instance_row' = Len(ids) - 1
            /\ current_instance' = cur
            /\ IF old # cur
               THEN /\ layer_order_list' = LayerOrderRows(cur, I, layer_order, composition_layers)
                    /\ layer_row' = -1
               ELSE UNCHANGED << layer_order_list, layer_row >>
    /\ UNCHANGED << heapVars, loaderVars, scene_file, returned >>

\* onInstanceSelected(row) for a row the operator clicks in instance_list
onInstanceSelected(row) ==
    /\ row \in 0..(Len(instance_list) - 1)
    /\ row # instance_row
    /\ LET id == instance_list[row + 1]
           cur == IF id \in Live THEN id ELSE None
       IN /\ current_instance' = cur
          /\ IF current_instance # cur
             THEN /\ layer_order_list' = LayerOrderRows(cur, inst, layer_order, composition_layers)
                  /\ layer_row' = -1
             ELSE UNCHANGED << layer_order_list, layer_row >>
    /\ instance_row' = row
    /\ UNCHANGED << sceneVars, heapVars, instance_list, loaderVars, scene_file, returned >>

\* an assignment without .copy(): the new instance refers to the original's object
AliasRef(new, original) == original

\* the object a copy made by duplicateCharacterInstance lives in: list.copy() and
\* dict.copy() make a new object, owned by the new instance
CopyRef(new, original) == new

\* duplicateCharacterInstance; id is the uuid4 drawn for the copy
duplicateCharacterInstance(id) ==
    /\ current_instance # None
    /\ id \in InstanceIds \ used_ids
    /\   LET original == inst[current_instance]
             lo == CopyRef(id, original.lo)
             cl == CopyRef(id, original.cl)
             li == CopyRef(id, original.li)
             new == [CharacterInstance(id, original.character_name, original.size)
                        EXCEPT !.lo = lo, !.cl = cl, !.li = li,
                               !.x_offset = original.x_offset + DuplicateShift,
                               !.y_offset = original.y_offset + DuplicateShift,
                               !.scale = original.scale,
                               !.z_order = next_z_order]
             I == [inst EXCEPT ![id] = new]
             ids == Append(character_instances, id)
         IN /\ inst' = I
            /\ layer_images' = [layer_images EXCEPT ![li] = layer_images[original.li]]
            /\ composition_layers' =
                   [composition_layers EXCEPT ![cl] = composition_layers[original.cl]]
            /\ layer_info' = [layer_info EXCEPT ![cl] = layer_info[original.cl]]
            /\ layer_order' = [layer_order EXCEPT ![lo] = layer_order[original.lo]]
            /\ used_ids' = used_ids \cup {id}
            /\ next_z_order' = next_z_order + 1
            /\ character_instances' = ids
            /\ canvas_instances' = Append(canvas_instances, id)
            /\ instance_list' = InstanceListRows(ids, I)
            /\ instance_row' = -1
            /\ current_instance' = AfterListClear(current_instance)
    /\ UNCHANGED << custom_components, layer_order_list, layer_row, loaderVars, scene_file, returned >>

\* removeCharacterInstance
removeCharacterInstance ==
    /\ current_instance # None
    /\ LET ids == ListRemove(character_instances, current_instance)
           I == [inst EXCEPT ![current_instance] = NoInstance]
       IN /\ character_instances' = ids
          /\ canvas_instances' = ListRemove(canvas_instances, current_instance)
          /\ inst' = I
          /\ layer_order' = Collect(layer_order, ids, I, LAMBDA o : o.lo, << >>)
          /\ composition_layers' = Collect(composition_layers, ids, I, LAMBDA o : o.cl, << >>)
          /\ layer_images' = Collect(layer_images, ids, I, LAMBDA o : o.li, {})
          /\ layer_info' = Collect(layer_info, ids, I, LAMBDA o : o.cl, {})
          /\ custom_components' =
                 Collect(custom_components, ids, I, LAMBDA o : o.cc, NewCustomComponents)
          /\ instance_list' = InstanceListRows(ids, I)
    /\ current_instance' = None
    /\ instance_row' = -1
    /\ UNCHANGED << next_z_order, used_ids, layer_order_list, layer_row, loaderVars, scene_file, returned >>

\* clearAllCharacters
clearAllCharacters ==
    /\ character_instances' = << >>
    /\ canvas_instances' = << >>
    /\ inst' = [i \in InstanceIds |-> NoInstance]
    /\ layer_order' = [r \in InstanceIds |-> << >>]
    /\ composition_layers' = [r \in InstanceIds |-> << >>]
    /\ layer_images' = [r \in InstanceIds |-> {}]
    /\ layer_info' = [r \in InstanceIds |-> {}]
    /\ custom_components' = [r \in InstanceIds |-> NewCustomComponents]
    /\ current_instance' = None
    /\ instance_list' = << >>
    /\ instance_row' = -1
    /\ UNCHANGED << next_z_order, used_ids, layer_order_list, layer_row, loaderVars, scene_file, returned >>

\* onTransformChanged after the operator edits one spin box: the three spin boxes
\* hold the current instance's values (updateTransformControls), one has changed
onTransformChanged(field, value) ==
    /\ current_instance # None
    /\ \/ field = "x" /\ inst' = [inst EXCEPT ![current_instance].x_offset = value]
       \/ field = "y" /\ inst' = [inst EXCEPT ![current_instance].y_offset = value]
       \/ field = "scale" /\ inst' = [inst EXCEPT ![current_instance].scale = value]
    /\ inst' # inst
    /\ UNCHANGED << character_instances, canvas_instances, next_z_order, used_ids,
                    heapVars, current_instance, listVars, loaderVars, scene_file, returned >>

\* resetTransform
resetTransform ==
    /\ current_instance # None
    /\ inst' = [inst EXCEPT ![current_instance].x_offset = 0,
                            ![current_instance].y_offset = 0,
                            ![current_instance].scale = ScaleUnit]
    /\ UNCHANGED << character_instances, canvas_instances, next_z_order, used_ids,
                    heapVars, current_instance, listVars, loaderVars, scene_file, returned >>

-----------------------------------------------------------------------------
(* Instance z-order handlers *)

ZOrders == { inst[i].z_order : i \in Live }

\* the first instance, in dict order, whose z_order is z
FirstWithZ(z) ==
    character_instances[
        CHOOSE k \in DOMAIN character_instances :
            /\ inst[character_instances[k]].z_order = z
            /\ \A j \in 1..(k - 1) : inst[character_instances[j]].z_order # z]

\* what every z-order handler does once it has changed a z_order:
\* updateInstanceList, updateTransformControls, canvas.update
ZOrderChanged(I) ==
    /\ inst' = I
    /\ instance_list' = InstanceListRows(character_instances, I)
    /\ instance_row' = -1
    /\ current_instance' = AfterListClear(current_instance)
    /\ UNCHANGED << character_instances, canvas_instances, next_z_order, used_ids,
                    heapVars, layer_order_list, layer_row, loaderVars, scene_file, returned >>

\* moveCharacterForward: swap z_order with the next higher one
moveCharacterForward ==
    /\ current_instance # None
    /\ LET current_z == inst[current_instance].z_order
           higher == { z \in ZOrders : z > current_z }
       IN /\ higher # {}
          /\ LET target_z == MinOf(higher)
                 other == FirstWithZ(target_z)
             IN ZOrderChanged([inst EXCEPT ![other].z_order = current_z,
                                           ![current_instance].z_order = target_z])

\* moveCharacterBackward: swap z_order with the next lower one
moveCharacterBackward ==
    /\ current_instance # None
    /\ LET current_z == inst[current_instance].z_order
           lower == { z \in ZOrders : z < current_z }
       IN /\ lower # {}
          /\ LET target_z == MaxOf(lower)
                 other == FirstWithZ(target_z)
             IN ZOrderChanged([inst EXCEPT ![other].z_order = current_z,
                                           ![current_instance].z_order = target_z])

\* moveCharacterToFront: nothing happens unless z_order is below the maximum
moveCharacterToFront ==
    /\ current_instance # None
    /\ LET max_z == MaxOf(ZOrders)
       IN IF inst[current_instance].z_order < max_z
          THEN /\ max_z + 1 <= MaxZ
               /\ ZOrderChanged([inst EXCEPT ![current_instance].z_order = max_z + 1])
          ELSE UNCHANGED vars

\* moveCharacterToBack: nothing happens unless z_order is above the minimum
moveCharacterToBack ==
    /\ current_instance # None
    /\ LET min_z == MinOf(ZOrders)
       IN IF inst[current_instance].z_order > min_z
          THEN /\ min_z - 1 >= -MaxZ
               /\ ZOrderChanged([inst EXCEPT ![current_instance].z_order = min_z - 1])
          ELSE UNCHANGED vars

-----------------------------------------------------------------------------
(* Layer handlers, all on current_instance *)

\* what a layer handler leaves alone
LayerFrame ==
    UNCHANGED << sceneVars, custom_components, current_instance, instance_list,
                 instance_row, scene_file, returned >>

\* updateLayerOrderDisplay after the heap has changed
RefreshLayerOrderList ==
    /\ layer_order_list' =
           LayerOrderRows(current_instance, inst, layer_order', composition_layers')
    /\ layer_row' = -1

\* ImageLoader.addTask, then ImageLoader.start() unless isRunning()
SubmitTask(layer_id, name) ==
    /\ tasks' = Append(tasks, [layer_id |-> layer_id, character_name |-> name])
    /\ IF loader_pc = "idle"
       THEN loader_pc' = "run" /\ loader_i' = 0
       ELSE UNCHANGED << loader_pc, loader_i >>
    /\ UNCHANGED signals

\* addLayerToInstance(layer): rejected with a warning when the image file is missing
addLayerToInstance(layer_id) ==
    /\ current_instance # None
    /\ LET me == inst[current_instance] IN
       IF ~AssetExists(me.character_name, me.size, layer_id)
       THEN UNCHANGED << heapVars, layer_order_list, layer_row, loaderVars >>
       ELSE /\ Len(tasks) < MaxTasks
            /\ SubmitTask(layer_id, me.character_name)
            /\ composition_layers' =
                   [composition_layers EXCEPT ![me.cl] = DictSet(@, layer_id)]
            /\ layer_order' =
                   [layer_order EXCEPT ![me.lo] =
                       IF Contains(@, layer_id) THEN @ ELSE Append(@, layer_id)]
            /\ layer_info' = [layer_info EXCEPT ![me.cl] = InfoWithout(@, layer_id)]
            /\ UNCHANGED << layer_images, custom_components >>
            /\ RefreshLayerOrderList
    /\ LayerFrame

\* removeLayerFromInstance(layer_id)
removeLayerFromInstance(layer_id) ==
    /\ current_instance # None
    /\ LET me == inst[current_instance] IN
       /\ layer_images' = [layer_images EXCEPT ![me.li] = @ \ {layer_id}]
       /\ composition_layers' = [composition_layers EXCEPT ![me.cl] = DictDel(@, layer_id)]
       /\ layer_info' = [layer_info EXCEPT ![me.cl] = InfoWithout(@, layer_id)]
       /\ layer_order' = [layer_order EXCEPT ![me.lo] = ListRemove(@, layer_id)]
    /\ RefreshLayerOrderList
    /\ UNCHANGED loaderVars
    /\ LayerFrame

\* toggleLayer(layer, is_selected), from the check box of a catalog layer: a box is
\* unchecked when the layer is not selected, and checked when it is selected or
\* when its selection was rejected for a missing image file
toggleLayer(layer_id, is_selected) ==
    /\ current_instance # None
    /\ layer_id \in CatalogIds(inst[current_instance].character_name,
                               inst[current_instance].size)
    /\ IF is_selected
       THEN /\ ~Contains(CompositionOf(current_instance), layer_id)
            /\ addLayerToInstance(layer_id)
       ELSE /\ \/ Contains(CompositionOf(current_instance), layer_id)
               \/ ~AssetExists(inst[current_instance].character_name,
                               inst[current_instance].size, layer_id)
            /\ removeLayerFromInstance(layer_id)

\* the operator clicks a row of layer_order_list
selectLayerRow(row) ==
    /\ current_instance # None
    /\ row \in 0..(Len(layer_order_list) - 1)
    /\ row # layer_row
    /\ layer_row' = row
    /\ UNCHANGED << sceneVars, heapVars, current_instance, instance_list, instance_row,
                    layer_order_list, loaderVars, scene_file, returned >>

\* what a reorder handler does once it has changed layer_order:
\* updateLayerOrderDisplay, layer_order_list.setCurrentRow(row), canvas update
Reordered(order, row) ==
    /\ layer_order' = [layer_order EXCEPT ![inst[current_instance].lo] = order]
    /\ layer_order_list' =
           LayerOrderRows(current_instance, inst, layer_order', composition_layers)
    /\ layer_row' = IF row < Len(layer_order_list') THEN row ELSE -1
    /\ UNCHANGED << composition_layers, layer_images, layer_info, loaderVars >>
    /\ LayerFrame

Swap(s, i, j) == [s EXCEPT ![i] = s[j], ![j] = s[i]]

\* moveLayerUp: swap with the next position (rows and positions are 0-based)
moveLayerUp ==
    /\ current_instance # None
    /\ LET order == LayerOrderOf(current_instance) IN
       /\ layer_row >= 0 /\ layer_row < Len(order) - 1
       /\ Reordered(Swap(order, layer_row + 1, layer_row + 2), layer_row + 1)

\* moveLayerDown: swap with the previous position
moveLayerDown ==
    /\ current_instance # None
    /\ LET order == LayerOrderOf(current_instance) IN
       /\ layer_row > 0
       /\ layer_row < Len(order)
       /\ Reordered(Swap(order, layer_row + 1, layer_row), layer_row - 1)

\* moveLayerToTop: pop(current_row), append
moveLayerToTop ==
    /\ current_instance # None
    /\ LET order == LayerOrderOf(current_instance) IN
       /\ layer_row >= 0 /\ layer_row < Len(order)
       /\ Reordered(Append(RemoveAt(order, layer_row + 1), order[layer_row + 1]),
                    Len(order) - 1)

\* moveLayerToBottom: pop(current_row), insert(0)
moveLayerToBottom ==
    /\ current_instance # None
    /\ LET order == LayerOrderOf(current_instance) IN
       /\ layer_row >= 0 /\ layer_row < Len(order)
       /\ Reordered(<< order[layer_row + 1] >> \o RemoveAt(order, layer_row + 1),
                    0)

-----------------------------------------------------------------------------
(* Custom layers of current_instance *)

\* -(len([lid for lid in composition_layers.keys() if lid < 0]) + 1)
CustomLayerId(keys) == -(Cardinality({ k \in DOMAIN keys : keys[k] < 0 }) + 1)

\* the layer goes last, whatever its z_order
InsertAtEnd(order, keys, info, layer_id, z_order) ==
    Append(ListRemove(order, layer_id), layer_id)

\* _insert_layer_by_z_order(layer_id, z_order): layer_order afterwards; keys and info
\* are composition_layers as the loop reads it
InsertByZOrder(order, keys, info, layer_id, z_order) ==
    LET rest == ListRemove(order, layer_id)
        greater == { i \in DOMAIN rest :
                        /\ Contains(keys, rest[i])
                        /\ z_order < ZOrderOfLayer(info, rest[i]) }
        insert_pos == IF greater = {} THEN Len(rest) ELSE MinOf(greater) - 1
    IN ListInsert(rest, insert_pos, layer_id)

\* alignment_point, layer_type and z_order are free names of importCustomLayer: the
\* module binds none of them, and a read of an unbound name raises NameError
NoAdvisorResult == [bound |-> FALSE, z_order |-> 0]

\* the names bound to a result of the alignment system, with its z_order
AdvisorResult(z_order) == [bound |-> TRUE, z_order |-> z_order]

\* importCustomLayer(file_path, layer_name): a warning when the file does not exist;
\* NameError at the first read of alignment_point, caught by the except clause that
\* shows a message box, when the names are unbound; the layer is added otherwise
importCustomLayer(file_exists, advisor) ==
    /\ current_instance # None
    /\ IF ~file_exists \/ ~advisor.bound
       THEN UNCHANGED vars
       ELSE LET me == inst[current_instance]
                custom_layer_id == CustomLayerId(composition_layers[me.cl])
            IN /\ Cardinality({ k \in DOMAIN composition_layers[me.cl] :
                                    composition_layers[me.cl][k] < 0 }) < MaxCustomLayers
               /\ composition_layers' =
                      [composition_layers EXCEPT ![me.cl] = DictSet(@, custom_layer_id)]
               /\ layer_info' =
                      [layer_info EXCEPT ![me.cl] =
                          InfoWithout(@, custom_layer_id)
                              \cup { [layer_id |-> custom_layer_id,
                                      z_order |-> advisor.z_order] }]
               /\ layer_images' = [layer_images EXCEPT ![me.li] = @ \cup { custom_layer_id }]
               /\ layer_order' =
                      [layer_order EXCEPT ![me.lo] =
                          InsertByZOrder(@, composition_layers'[me.cl], layer_info'[me.cl],
                                         custom_layer_id, advisor.z_order)]
               /\ RefreshLayerOrderList
               /\ UNCHANGED << custom_components, loaderVars >>
               /\ LayerFrame

\* toggleCustomLayer(layer, is_selected), from the check box of a custom layer
toggleCustomLayer(layer_id, is_selected) ==
    /\ current_instance # None
    /\ layer_id < 0
    /\ Contains(CompositionOf(current_instance), layer_id)
    /\ layer_order' =
           [layer_order EXCEPT ![inst[current_instance].lo] =
               IF is_selected
               THEN IF Contains(@, layer_id) THEN @ ELSE Append(@, layer_id)
               ELSE ListRemove(@, layer_id)]
    /\ UNCHANGED << composition_layers, layer_images, layer_info, custom_components,
                    loaderVars >>
    /\ RefreshLayerOrderList
    /\ LayerFrame

\* removeCustomLayer(layer), confirmed in the dialog
removeCustomLayer(layer_id) ==
    /\ current_instance # None
    /\ layer_id < 0
    /\ Contains(CompositionOf(current_instance), layer_id)
    /\ LET me == inst[current_instance] IN
       /\ layer_images' = [layer_images EXCEPT ![me.li] = @ \ {layer_id}]
       /\ composition_layers' = [composition_layers EXCEPT ![me.cl] = DictDel(@, layer_id)]
       /\ layer_info' = [layer_info EXCEPT ![me.cl] = InfoWithout(@, layer_id)]
       /\ layer_order' = [layer_order EXCEPT ![me.lo] = ListRemove(@, layer_id)]
    /\ RefreshLayerOrderList
    /\ UNCHANGED << custom_components, loaderVars >>
    /\ LayerFrame

-----------------------------------------------------------------------------
(* ImageLoader.run on the worker thread, and the delivery of its signal *)

\* one iteration of the for loop: decode tasks[i], emit imageLoaded
ImageLoaderEmit ==
    /\ loader_pc = "run"
    /\ loader_i < Len(tasks)
    /\ Len(signals) < MaxTasks
    /\ signals' = Append(signals, tasks[loader_i + 1])
    /\ loader_i' = loader_i + 1
    /\ UNCHANGED << sceneVars, heapVars, current_instance, listVars, tasks, loader_pc,
                    scene_file, returned >>

\* the list iterator finds no element at position i: the loop ends
ImageLoaderLoopEnd ==
    /\ loader_pc = "run"
    /\ loader_i >= Len(tasks)
    /\ loader_pc' = "exit"
    /\ UNCHANGED << sceneVars, heapVars, current_instance, listVars, tasks, loader_i,
                    signals, scene_file, returned >>

\* self.tasks.clear()
ImageLoaderClear ==
    /\ loader_pc = "exit"
    /\ tasks' = << >>
    /\ loader_pc' = "fin"
    /\ UNCHANGED << sceneVars, heapVars, current_instance, listVars, loader_i, signals,
                    scene_file, returned >>

\* run() returns and the thread finishes: isRunning() is False from here on
ImageLoaderFinished ==
    /\ loader_pc = "fin"
    /\ loader_pc' = "idle"
    /\ UNCHANGED << sceneVars, heapVars, current_instance, listVars, tasks, loader_i,
                    signals, scene_file, returned >>

\* every instance of the scene, whatever its composition_layers
EveryInstance(layer_id) == Live

\* the instances for which `layer_id in instance.composition_layers`
InstancesWith(layer_id) == { i \in Live : Contains(CompositionOf(i), layer_id) }

\* onImageLoaded(layer_id, image), for the oldest queued emission
onImageLoaded ==
    /\ signals # << >>
    /\ LET layer_id == Head(signals).layer_id
           targets == { inst[i].li : i \in InstancesWith(layer_id) }
       IN /\ layer_images' =
                 [r \in InstanceIds |->
                     IF r \in targets THEN layer_images[r] \cup {layer_id} ELSE layer_images[r]]
          /\ IF current_instance # None /\ Contains(CompositionOf(current_instance), layer_id)
             THEN /\ layer_order_list' =
                         LayerOrderRows(current_instance, inst, layer_order, composition_layers)
                  /\ layer_row' = -1
             ELSE UNCHANGED << layer_order_list, layer_row >>
    /\ signals' = Tail(signals)
    /\ UNCHANGED << sceneVars, layer_order, composition_layers, layer_info,
                    custom_components,
                    current_instance, instance_list, instance_row, tasks, loader_pc,
                    loader_i, scene_file, returned >>

-----------------------------------------------------------------------------
(* PositionAlignmentSystem.suggestLayerType; a str is a TLA+ string of ASCII characters *)

\* str.lower() of one character
LowerChar(c) ==
    CASE c = "A" -> "a" []
        c = "B" -> "b" []
        c = "C" -> "c" []
        c = "D" -> "d" []
        c = "E" -> "e" []
        c = "F" -> "f" []
        c = "G" -> "g" []
        c = "H" -> "h" []
        c = "I" -> "i" []
        c = "J" -> "j" []
        c = "K" -> "k" []
        c = "L" -> "l" []
        c = "M" -> "m" []
        c = "N" -> "n" []
        c = "O" -> "o" []
        c = "P" -> "p" []
        c = "Q" -> "q" []
        c = "R" -> "r" []
        c = "S" -> "s" []
        c = "T" -> "t" []
        c = "U" -> "u" []
        c = "V" -> "v" []
        c = "W" -> "w" []
        c = "X" -> "x" []
        c = "Y" -> "y" []
        c = "Z" -> "z" []
        OTHER -> c

\* str.lower()
Lower(str) ==
    LET F[i \in 0..Len(str)] ==
            IF i = 0 THEN "" ELSE F[i - 1] \o LowerChar(SubSeq(str, i, i))
    IN F[Len(str)]

\* keyword in str
KeywordIn(keyword, str) ==
    \E i \in 1..(Len(str) - Len(keyword) + 1) :
        SubSeq(str, i, i + Len(keyword) - 1) = keyword

\* the keywords of the three lists that an ASCII name can contain
CostumeKeywords == { "costume", "clothes", "dress", "shirt", "pants", "coat" }
ExpressionKeywords == { "expression", "eyes", "eyebrows", "mouth", "smile", "cry" }
AccessoryKeywords ==
    { "accessory", "decoration", "hat", "earring", "necklace", "bracelet" }

\* any(keyword in name_lower for keyword in keywords)
AnyIn(keywords, name_lower) == \E keyword \in keywords : KeywordIn(keyword, name_lower)

\* the guesses from the image size, after the keyword lists
SizeHeuristic(width, height) ==
    IF width < 100 /\ height < 100 THEN "accessory"
    ELSE IF width < 200 /\ height < 200 THEN "expression"
    ELSE IF width > 300 \/ height > 300 THEN "costume"
    ELSE "custom"

\* PositionAlignmentSystem.suggestLayerType(layer_name, image_size)
suggestLayerType_of(layer_name, image_size) ==
    IF layer_name = "" THEN "custom"
    ELSE LET name_lower == Lower(layer_name)
         IN IF AnyIn(CostumeKeywords, name_lower) THEN "costume"
            ELSE IF AnyIn(ExpressionKeywords, name_lower) THEN "expression"
            ELSE IF AnyIn(AccessoryKeywords, name_lower) THEN "accessory"
            ELSE SizeHeuristic(image_size[1], image_size[2])

\* alignment_system.suggestLayerType(layer_name, image_size)
suggestLayerType(layer_name, image_size) ==
    /\ returned' = [method |-> "suggestLayerType",
                    args |-> << layer_name, image_size >>,
                    component |-> None,
                    layer_type |-> suggestLayerType_of(layer_name, image_size)]
    /\ UNCHANGED << sceneVars, heapVars, current_instance, listVars, loaderVars,
                    scene_file >>

-----------------------------------------------------------------------------
(* saveScene and loadScene *)

\* char_data of one instance, as json.dump writes it and json.load reads it back
SceneRecordOf(i) ==
    [character_name |-> inst[i].character_name, size |-> inst[i].size,
     x_offset |-> inst[i].x_offset, y_offset |-> inst[i].y_offset,
     scale |-> inst[i].scale, visible |-> inst[i].visible, z_order |-> inst[i].z_order,
     layers |-> CompositionOf(i), layer_order |-> LayerOrderOf(i)]

\* scene_data as saveScene builds it from the scene
SceneData ==
    [exists |-> TRUE,
     characters |-> [k \in 1..Len(character_instances) |->
                        SceneRecordOf(character_instances[k])]]

\* saveScene, with a file name chosen
saveScene ==
    /\ scene_file' = SceneData
    /\ UNCHANGED << sceneVars, heapVars, current_instance, listVars, loaderVars,
                    returned >>

\* the keys of composition_layers after loadScene's loop over char_data['layers']:
\* an id is kept when some catalog layer of the record's character and size has it
ResolvedLayers(rec) ==
    LET ids == rec.layers
        F[k \in 0..Len(ids)] ==
            IF k = 0 THEN << >>
            ELSE IF ids[k] \in CatalogIds(rec.character_name, rec.size)
                 THEN DictSet(F[k - 1], ids[k]) ELSE F[k - 1]
    IN IF rec.character_name \in Characters THEN F[Len(ids)] ELSE << >>

\* the default of char_data.get('layer_order', ...): the keys just resolved
KeysAsLayerOrder(rec) == ResolvedLayers(rec)

\* instance.layer_order after loadScene: char_data['layer_order'] as it stands
LoadedLayerOrder(rec) ==
    IF rec.character_name \in Characters THEN rec.layer_order ELSE << >>

\* the addTask calls loadScene makes for one record
LoadTasks(rec) ==
    LET ids == rec.layers
        F[k \in 0..Len(ids)] ==
            IF k = 0 THEN << >>
            ELSE IF /\ rec.character_name \in Characters
                    /\ AssetExists(rec.character_name, rec.size, ids[k])
                 THEN Append(F[k - 1], [layer_id |-> ids[k],
                                        character_name |-> rec.character_name])
                 ELSE F[k - 1]
    IN F[Len(ids)]

\* the instance loadScene builds from one record
LoadedInstance(id, rec) ==
    [CharacterInstance(id, rec.character_name, rec.size)
        EXCEPT !.x_offset = rec.x_offset, !.y_offset = rec.y_offset,
               !.scale = rec.scale, !.visible = rec.visible, !.z_order = rec.z_order]

InjectiveSeqs(S, n) == { q \in [1..n -> S] : \A a, b \in 1..n : a # b => q[a] # q[b] }

\* loadScene, with a readable scene file chosen; ids are the uuid4 values drawn
\* for the instances, in the order of the file's records
loadScene(ids) ==
    /\ scene_file.exists
    /\ LET recs == scene_file.characters
           n == Len(recs)
           added == Flatten([k \in 1..n |-> LoadTasks(recs[k])])
       IN /\ ids \in InjectiveSeqs(InstanceIds \ used_ids, n)
          /\   LET Rec(id) == recs[CHOOSE k \in 1..n : ids[k] = id]
                   new == Range(ids)
                   I == [i \in InstanceIds |->
                            IF i \in new THEN LoadedInstance(i, Rec(i)) ELSE NoInstance]
               IN /\ inst' = I
                  /\ character_instances' = ids
                  /\ canvas_instances' = ids
                  /\ used_ids' = used_ids \cup new
                  /\ composition_layers' =
                         [r \in InstanceIds |->
                             IF r \in new THEN ResolvedLayers(Rec(r)) ELSE << >>]
                  /\ layer_order' =
                         [r \in InstanceIds |->
                             IF r \in new THEN LoadedLayerOrder(Rec(r)) ELSE << >>]
                  /\ layer_images' = [r \in InstanceIds |-> {}]
                  /\ layer_info' = [r \in InstanceIds |-> {}]
                  /\ custom_components' = [r \in InstanceIds |-> NewCustomComponents]
                  /\ next_z_order' =
                         IF n > 0 THEN MaxOf({ recs[k].z_order : k \in 1..n }) + 1
                         ELSE next_z_order
                  /\ instance_list' = InstanceListRows(ids, I)
          /\ tasks' = tasks \o added
          /\ IF tasks' # << >> /\ loader_pc = "idle"
             THEN loader_pc' = "run" /\ loader_i' = 0
             ELSE UNCHANGED << loader_pc, loader_i >>
    /\ current_instance' = None
    /\ instance_row' = -1
    /\ UNCHANGED << layer_order_list, layer_row, signals, scene_file, returned >>

\* a required key that a record of a scene file does not have
MissingKey == "<missing>"

\* a file json.load cannot parse
UnparsableScene == [exists |-> TRUE, parses |-> FALSE, characters |-> << >>]

\* a file whose second record has no 'character_name'
TruncatedScene ==
    [exists |-> TRUE, parses |-> TRUE,
     characters |-> << SceneRecord("ginka", 0, 0, ScaleUnit, TRUE, 0, << 1 >>, << 1 >>),
                       SceneRecord(MissingKey, 0, 0, ScaleUnit, TRUE, 1, << 2 >>, << 2 >>) >>]

\* a file whose only record has no 'size'
SizelessScene ==
    [exists |-> TRUE, parses |-> TRUE,
     characters |-> << [SceneRecord("ginka", 0, 0, ScaleUnit, TRUE, 0, << 1 >>, << 1 >>)
                           EXCEPT !.size = MissingKey] >>]

\* the scene files on disk that loadScene cannot load
BrokenScenes == { UnparsableScene, TruncatedScene, SizelessScene }

\* char_data['character_name'] or char_data['size'] raises KeyError
RaisesKeyError(rec) == rec.character_name = MissingKey \/ rec.size = MissingKey

\* the number of records loadScene's loop handles before one raises
LoadedBeforeError(file) ==
    IF ~file.parses THEN 0
    ELSE (CHOOSE k \in DOMAIN file.characters :
              /\ RaisesKeyError(file.characters[k])
              /\ \A j \in 1..(k - 1) : ~RaisesKeyError(file.characters[j])) - 1

\* loadScene with a file of BrokenScenes chosen: json.load raises before anything is
\* touched, or a record raises KeyError after clearAllCharacters and after the
\* records before it were added; the except clause shows a message box and restores
\* nothing; ids are the uuid4 values drawn for the records that were added
loadSceneError(ids, file) ==
    /\ file \in BrokenScenes
    /\ IF ~file.parses
       THEN /\ ids = << >>
            /\ UNCHANGED vars
       ELSE LET n == LoadedBeforeError(file)
                recs == SubSeq(file.characters, 1, n)
                added == Flatten([k \in 1..n |-> LoadTasks(recs[k])])
            IN /\ ids \in InjectiveSeqs(InstanceIds \ used_ids, n)
               /\   LET Rec(id) == recs[CHOOSE k \in 1..n : ids[k] = id]
                        new == Range(ids)
                    IN /\ inst' = [i \in InstanceIds |->
                                      IF i \in new THEN LoadedInstance(i, Rec(i))
                                      ELSE NoInstance]
                       /\ character_instances' = ids
                       /\ canvas_instances' = ids
                       /\ used_ids' = used_ids \cup new
                       /\ composition_layers' =
                              [r \in InstanceIds |->
                                  IF r \in new THEN ResolvedLayers(Rec(r)) ELSE << >>]
                       /\ layer_order' =
                              [r \in InstanceIds |->
                                  IF r \in new THEN LoadedLayerOrder(Rec(r)) ELSE << >>]
                       /\ layer_images' = [r \in InstanceIds |-> {}]
                       /\ layer_info' = [r \in InstanceIds |-> {}]
                       /\ custom_components' = [r \in InstanceIds |-> NewCustomComponents]
               /\ tasks' = tasks \o added
               \* updateInstanceList ran in clearAllCharacters only
               /\ instance_list' = << >>
               /\ instance_row' = -1
               /\ current_instance' = None
               /\ UNCHANGED << next_z_order, layer_order_list, layer_row, loader_pc,
                               loader_i, signals, scene_file, returned >>

-----------------------------------------------------------------------------
(* CharacterCustomComponents of the current instance *)

\* what a method of custom_components leaves alone
ComponentFrame ==
    UNCHANGED << sceneVars, layer_order, composition_layers, layer_images, layer_info,
                 current_instance, listVars, loaderVars, scene_file, returned >>

\* custom_components.add_component(name, image_path, z_index)
add_component(name, z_index) ==
    /\ current_instance # None
    /\ \E image_path \in ComponentImages :
           custom_components' =
               [custom_components EXCEPT
                   ![inst[current_instance].cc] =
                       add_component_to(@, name, image_path, z_index)]
    /\ ComponentFrame

\* custom_components.remove_component_by_name(name)
remove_component_by_name(name) ==
    /\ current_instance # None
    /\ \E k \in DOMAIN ComponentsOf(current_instance).components :
           ComponentsOf(current_instance).components[k].name = name
    /\ custom_components' =
           [custom_components EXCEPT
               ![inst[current_instance].cc] = remove_component_by_name_from(@, name)]
    /\ UNCHANGED << sceneVars, layer_order, composition_layers, layer_images, layer_info,
                    current_instance, listVars, loaderVars, scene_file, returned >>

\* custom_components.clear_all()
clear_all ==
    /\ current_instance # None
    /\ custom_components' =
           [custom_components EXCEPT ![inst[current_instance].cc] = clear_all_of(@)]
    /\ ComponentFrame

\* custom_components.set_component_z_index(component, z_index), k its position
set_component_z_index(k, z_index) ==
    /\ current_instance # None
    /\ k \in DOMAIN ComponentsOf(current_instance).components
    /\ custom_components' =
           [custom_components EXCEPT
               ![inst[current_instance].cc] = set_component_z_index_of(@, k, z_index)]
    /\ ComponentFrame

\* custom_components.move_component_to_front(component), k its position
move_component_to_front(k) ==
    /\ current_instance # None
    /\ k \in DOMAIN ComponentsOf(current_instance).components
    /\ custom_components' =
           [custom_components EXCEPT
               ![inst[current_instance].cc] = move_component_to_front_of(@, k)]
    /\ ComponentFrame

\* custom_components.move_component_up(component), k its position
move_component_up(k) ==
    /\ current_instance # None
    /\ k \in DOMAIN ComponentsOf(current_instance).components
    /\ custom_components' =
           [custom_components EXCEPT
               ![inst[current_instance].cc] = move_component_up_of(@, k)]
    /\ ComponentFrame

\* custom_components.move_component_down(component), k its position
move_component_down(k) ==
    /\ current_instance # None
    /\ k \in DOMAIN ComponentsOf(current_instance).components
    /\ custom_components' =
           [custom_components EXCEPT
               ![inst[current_instance].cc] = move_component_down_of(@, k)]
    /\ ComponentFrame

\* custom_components.move_component_to_back(component), k its position
move_component_to_back(k) ==
    /\ current_instance # None
    /\ k \in DOMAIN ComponentsOf(current_instance).components
    /\ custom_components' =
           [custom_components EXCEPT
               ![inst[current_instance].cc] = move_component_to_back_of(@, k)]
    /\ ComponentFrame

\* custom_components.get_component_at_position(x, y)
get_component_at_position(x, y) ==
    /\ current_instance # None
    /\ returned' =
           [method |-> "get_component_at_position", args |-> << x, y >>,
            component |-> get_component_at_position_of(
                              ComponentsOf(current_instance).components, x, y),
            layer_type |-> ""]
    /\ UNCHANGED << sceneVars, heapVars, current_instance, listVars, loaderVars,
                    scene_file >>

\* custom_components.from_dict(data)
components_from(data) ==
    /\ current_instance # None
    /\ custom_components' =
           [custom_components EXCEPT
               ![inst[current_instance].cc] = components_from_dict(@, data)]
    /\ ComponentFrame

-----------------------------------------------------------------------------
(* The specifications *)

\* values the operator types into the transform spin boxes
TransformInputs == { << "x", -30 >>, << "y", 20 >>, << "scale", 110 >> }

ComponentNames == { "hat" }

\* the archetype the operator picks in the character tab, unless a run says otherwise
Cast == { "ginka" }

\* uuid4: any value not handed out before
AnyFresh == InstanceIds \ used_ids

\* no handler compares instance ids, so a run is the same up to the naming of the
\* instances: the least unused value stands for any, for at most n instances
LeastFresh(n) ==
    IF Cardinality(used_ids) < n /\ AnyFresh # {} THEN { MinOf(AnyFresh) } ELSE {}

\* the k least unused values, in order, when they exist within n instances
LeastFreshSeqs(k, n) ==
    IF Cardinality(used_ids) + k <= n /\ Cardinality(AnyFresh) >= k
    THEN { [j \in 1..k |-> MinOf({ a \in AnyFresh :
                                      Cardinality({ b \in AnyFresh : b < a }) = j - 1 })] }
    ELSE {}

AnyFreshSeqs(k) == InjectiveSeqs(AnyFresh, k)

Create(Fresh) ==
    \/ \E c \in Cast, z \in Sizes, id \in Fresh : addCharacterInstance(c, z, id)
    \/ \E id \in Fresh : duplicateCharacterInstance(id)

Select == \E row \in 0..(MaxIds - 1) : onInstanceSelected(row)

Remove ==
    \/ removeCharacterInstance
    \/ clearAllCharacters

TransformOps ==
    \/ \E t \in TransformInputs : onTransformChanged(t[1], t[2])
    \/ resetTransform

ZOrderOps ==
    \/ moveCharacterForward
    \/ moveCharacterBackward
    \/ moveCharacterToFront
    \/ moveCharacterToBack

LayerOps ==
    \/ \E l \in 1..3, on \in BOOLEAN : toggleLayer(l, on)
    \/ \E row \in 0..2 : selectLayerRow(row)
    \/ moveLayerUp
    \/ moveLayerDown
    \/ moveLayerToTop
    \/ moveLayerToBottom

\* fewer than n components were added without a z_index
AutoAddedBelow(n) ==
    current_instance # None /\ ComponentsOf(current_instance).auto_added < n

ComponentOps ==
    \/ AutoAddedBelow(MaxComponents) /\ \E n \in ComponentNames : add_component(n, Omitted)
    \/ \E n \in ComponentNames : remove_component_by_name(n)

LoaderOps ==
    \/ ImageLoaderEmit
    \/ ImageLoaderLoopEnd
    \/ ImageLoaderClear
    \/ ImageLoaderFinished
    \/ onImageLoaded

Load(FreshSeqs) == \E ids \in FreshSeqs : loadScene(ids)

\* the whole program
Next ==
    \/ Create(AnyFresh) \/ Select \/ Remove \/ TransformOps \/ ZOrderOps
    \/ LayerOps \/ ComponentOps \/ LoaderOps
    \/ Load(AnyFreshSeqs(Len(scene_file.characters))) \/ saveScene

Spec == Init /\ [][Next]_vars

\* the scene and its z-orders
NextZ ==
    \/ Create(LeastFresh(MaxIds)) \/ Select \/ Remove \/ ZOrderOps
    \/ Load(LeastFreshSeqs(Len(scene_file.characters), MaxIds))

SpecZ == Init /\ [][NextZ]_vars

\* a loaded scene, its images and its paint order
NextDraw ==
    \/ Create(LeastFresh(MaxIds)) \/ Select \/ ZOrderOps \/ LoaderOps
    \/ Load(LeastFreshSeqs(Len(scene_file.characters), MaxIds))

SpecDraw == InitExternalScene /\ [][NextDraw]_vars

\* a loaded scene under every naming of its instances
NextNames ==
    \/ Select \/ Remove \/ LoaderOps
    \/ Load(AnyFreshSeqs(Len(scene_file.characters)))

SpecNames == InitExternalScene /\ [][NextNames]_vars

\* the layers and components of at most MaxEdited instances, no scene file on disk
NextLayers ==
    \/ Create(LeastFresh(MaxEdited)) \/ Select \/ LayerOps \/ ComponentOps \/ LoaderOps

SpecLayers == InitNoFile /\ [][NextLayers]_vars

\* the session has not saved yet: the file on disk is the one found at start
Unsaved == scene_file = StaleScene

\* a session that loads a scene, edits it, saves it and loads what it saved
NextRoundTrip ==
    \/ Unsaved /\ \E id \in LeastFresh(MaxEdited) : duplicateCharacterInstance(id)
    \/ Unsaved /\ \E t \in TransformInputs : onTransformChanged(t[1], t[2])
    \/ Unsaved /\ moveCharacterForward
    \/ Unsaved /\ moveCharacterBackward
    \/ Unsaved /\ moveCharacterToFront
    \/ Unsaved /\ moveCharacterToBack
    \/ Unsaved /\ \E row \in 0..2 : selectLayerRow(row)
    \/ Unsaved /\ moveLayerUp
    \/ Unsaved /\ moveLayerDown
    \/ Unsaved /\ saveScene
    \/ Select
    \/ /\ used_ids = {} \/ scene_file = SceneData
       /\ Load(LeastFreshSeqs(Len(scene_file.characters), MaxIds))

SpecRoundTrip == InitStaleScene /\ [][NextRoundTrip]_vars

\* one instance, its layers, their images and its transform
NextExport ==
    \/ \E c \in Cast, z \in Sizes, id \in LeastFresh(MaxExported) :
           addCharacterInstance(c, z, id)
    \/ LayerOps \/ TransformOps \/ LoaderOps

SpecExport == InitNoFile /\ [][NextExport]_vars

\* a loaded scene and its layers
NextLoad ==
    \/ Select \/ LayerOps \/ LoaderOps
    \/ Load(LeastFreshSeqs(Len(scene_file.characters), MaxIds))

SpecLoad == InitStaleScene /\ [][NextLoad]_vars

LoadError(n) ==
    \E file \in BrokenScenes :
        \E ids \in LeastFreshSeqs(LoadedBeforeError(file), n) : loadSceneError(ids, file)

\* a scene that is built or loaded, and loads that fail
NextLoadError ==
    \/ Create(LeastFresh(MaxIds)) \/ Select
    \/ Load(LeastFreshSeqs(Len(scene_file.characters), MaxIds))
    \/ LoadError(MaxIds)

SpecLoadError == InitStaleScene /\ [][NextLoadError]_vars

\* instances of two archetypes, one layer id of their catalogs and its images
NextArchetypes ==
    \/ \E c \in Characters, z \in Sizes, id \in LeastFresh(MaxEdited) :
           addCharacterInstance(c, z, id)
    \/ Select
    \/ \E on \in BOOLEAN : toggleLayer(1, on)
    \/ LoaderOps

SpecArchetypes == InitNoFile /\ [][NextArchetypes]_vars

\* names and image sizes given to suggestLayerType
LayerNames ==
    { "", "layer", "Dress", "my SHIRT", "smile", "Eyes shut", "hat", "that one",
      "smile in a coat", "necklace and mouth" }
ImageSides == { 50, 99, 100, 199, 200, 300, 301 }

\* the layer type advisor, asked about names and sizes
NextAdvisor ==
    \E layer_name \in LayerNames, width \in ImageSides, height \in ImageSides :
        suggestLayerType(layer_name, << width, height >>)

SpecAdvisor == InitNoFile /\ [][NextAdvisor]_vars

\* z_order values of the alignment system's results
ZOrderHints == { -1, 5, 10 }

CustomLayerIds == { -k : k \in 1..MaxCustomLayers }

CustomLayerOps ==
    \/ \E file_exists \in BOOLEAN : importCustomLayer(file_exists, NoAdvisorResult)
    \/ \E h \in ZOrderHints : importCustomLayer(TRUE, AdvisorResult(h))
    \/ \E l \in CustomLayerIds, on \in BOOLEAN : toggleCustomLayer(l, on)
    \/ \E l \in CustomLayerIds : removeCustomLayer(l)

\* one instance, one catalog layer and its custom layers
NextCustom ==
    \/ \E c \in Cast, z \in Sizes, id \in LeastFresh(MaxExported) :
           addCharacterInstance(c, z, id)
    \/ \E on \in BOOLEAN : toggleLayer(1, on)
    \/ CustomLayerOps
    \/ LoaderOps

SpecCustom == InitNoFile /\ [][NextCustom]_vars

\* z_index values given to add_component and set_component_z_index
GivenZIndexes == { 5, 10001 }

\* the 'components' of the dicts given to from_dict
ComponentDicts ==
    { << >>,
      << [name |-> "hat", image_path |-> "hat.png", x |-> 0, y |-> 0,
          scale |-> ScaleUnit, z_index |-> 7, visible |-> TRUE] >>,
      << [name |-> "hat", image_path |-> "hat.png", x |-> 0, y |-> 0,
          scale |-> ScaleUnit, z_index |-> 0, visible |-> TRUE],
         [name |-> "bow", image_path |-> "hat.png", x |-> 0, y |-> 0,
          scale |-> ScaleUnit, z_index |-> 0, visible |-> FALSE] >>,
      << [name |-> "hat", image_path |-> "lost.png", x |-> 20, y |-> 0,
          scale |-> ScaleUnit, z_index |-> 2, visible |-> TRUE],
         [name |-> "bow", image_path |-> "hat.png", x |-> 20, y |-> 0,
          scale |-> 50, z_index |-> 1, visible |-> TRUE] >> }

\* points asked of get_component_at_position
HitPoints == { << 0, 0 >>, << 5, 15 >>, << 22, 5 >> }

\* the set holds fewer than n components
HoldsBelow(n) ==
    current_instance # None /\ Len(ComponentsOf(current_instance).components) < n

\* fewer than n calls have moved _next_z_index
RebasesBelow(n) ==
    current_instance # None /\ ComponentsOf(current_instance).rebases < n

\* fewer than n calls have moved a component up, down or to the back
NudgesBelow(n) ==
    current_instance # None /\ ComponentsOf(current_instance).nudges < n

ComponentSetOps ==
    \/ /\ AutoAddedBelow(MaxAdded) /\ HoldsBelow(MaxAdded)
       /\ \E n \in ComponentNames : add_component(n, Omitted)
    \/ /\ HoldsBelow(MaxAdded)
       /\ \E n \in ComponentNames, z \in GivenZIndexes : add_component(n, Given(z))
    \/ \E n \in ComponentNames : remove_component_by_name(n)
    \/ clear_all
    \/ /\ RebasesBelow(MaxRebases)
       /\ \E k \in 1..MaxAdded, z \in GivenZIndexes : set_component_z_index(k, z)
    \/ RebasesBelow(MaxRebases) /\ \E k \in 1..MaxAdded : move_component_to_front(k)
    \/ RebasesBelow(MaxRebases) /\ \E data \in ComponentDicts : components_from(data)
    \/ NudgesBelow(MaxNudges) /\ \E k \in 1..MaxAdded : move_component_up(k)
    \/ NudgesBelow(MaxNudges) /\ \E k \in 1..MaxAdded : move_component_down(k)
    \/ NudgesBelow(MaxNudges) /\ \E k \in 1..MaxAdded : move_component_to_back(k)
    \/ \E p \in HitPoints : get_component_at_position(p[1], p[2])

\* one instance and its set of custom components
NextComponents ==
    \/ \E c \in Cast, z \in Sizes, id \in LeastFresh(MaxExported) :
           addCharacterInstance(c, z, id)
    \/ ComponentSetOps

SpecComponents == InitNoFile /\ [][NextComponents]_vars

-----------------------------------------------------------------------------
(* Steps of the handlers, as predicates on a pair of states *)

LayerStep ==
    \/ \E l \in 1..3, on \in BOOLEAN : toggleLayer(l, on)
    \/ moveLayerUp
    \/ moveLayerDown
    \/ moveLayerToTop
    \/ moveLayerToBottom

ComponentStep ==
    \E n \in ComponentNames : add_component(n, Omitted) \/ remove_component_by_name(n)

AddStep(id) == \E c \in Characters, z \in Sizes : addCharacterInstance(c, z, id)

LoadStep == \E ids \in AnyFreshSeqs(Len(scene_file.characters)) : loadScene(ids)

\* the ids of a list and the keys of a dict are the same set
SameIds(order, keys) == Range(order) = Range(keys)

-----------------------------------------------------------------------------
(* Layer invariant *)

\* C1: after any layer selection, deselection or reorder on an instance, the set of
\* ids in its layer_order equals the key set of its composition_layers
C1_LayerOrderMatchesComposition ==
    [][LayerStep =>
          SameIds(layer_order'[inst[current_instance].lo],
                  composition_layers'[inst[current_instance].cl])]_vars

\* the ids a scene record names that the catalog does not have
DroppedIds(rec) ==
    { l \in Range(rec.layers) \cup Range(rec.layer_order) :
          l \notin CatalogIds(rec.character_name, rec.size) }

\* C10: after loadScene of a record naming ids absent from the catalog, the dropped
\* ids are neither in composition_layers nor in layer_order of the loaded instance,
\* and its layer_order contains exactly the keys of its composition_layers
C10_LoadKeepsLayerInvariant ==
    [][LoadStep =>
          \A k \in 1..Len(scene_file.characters) :
              LET i == character_instances'[k]
                  order == layer_order'[inst'[i].lo]
                  keys == composition_layers'[inst'[i].cl]
              IN /\ DroppedIds(scene_file.characters[k]) \cap Range(keys) = {}
                 /\ DroppedIds(scene_file.characters[k]) \cap Range(order) = {}
                 /\ SameIds(order, keys)
                 /\ NoDuplicates(order)]_vars

-----------------------------------------------------------------------------
(* z_order of a new instance *)

\* C8: an instance newly created by addCharacterInstance or duplicateCharacterInstance
\* receives a z_order one above the maximum z_order of the instances existing just
\* before, hence strictly greater than every other instance's z_order
C8_NewInstanceOnTop ==
    [][\A id \in InstanceIds :
           (AddStep(id) \/ duplicateCharacterInstance(id)) =>
               /\ Live # {} => inst'[id].z_order = MaxOf(ZOrders) + 1
               /\ \A o \in Live : inst'[id].z_order > inst[o].z_order]_vars

-----------------------------------------------------------------------------
(* The draw lists *)

\* export resolution multipliers
Multipliers == 1..4

\* every layer id a run can name
LayerIds == { 1, 2, 3, 9 }

ZOfItem(item) == inst[item.instance_id].z_order

\* no item of a higher z_order comes before an item of a lower one
InZOrder(items) ==
    \A p, q \in DOMAIN items : p < q => ZOfItem(items[p]) <= ZOfItem(items[q])

\* the items of one instance are consecutive
NotInterleaved(items) ==
    \A p, q, r \in DOMAIN items :
        (p < r /\ r < q /\ items[p].instance_id = items[q].instance_id)
            => items[r].instance_id = items[p].instance_id

TiesByInstanceId(items) ==
    \A p, q \in DOMAIN items :
        (p < q /\ ZOfItem(items[p]) = ZOfItem(items[q]))
            => items[p].instance_id <= items[q].instance_id

\* C3: when two visible instances have equal z_order the draw list emits the instance
\* with the smaller instance_id first, whatever the order they were created in
C3_TiesByInstanceId ==
    /\ TiesByInstanceId(renderCharactersForExport(1))
    /\ TiesByInstanceId(paintEvent)

\* the pair (instance, layer) is to be drawn
ToDraw(i, l) ==
    /\ i \in Live
    /\ inst[i].visible
    /\ Contains(LayerOrderOf(i), l)
    /\ Contains(CompositionOf(i), l)
    /\ l \in ImagesOf(i)

\* one item for each pair to draw and no other, in layer_order within an instance
OneItemPerDrawnLayer(items) ==
    /\ \A k \in DOMAIN items : ToDraw(items[k].instance_id, items[k].layer_id)
    /\ \A i \in InstanceIds, l \in LayerIds :
           ToDraw(i, l) =>
               Cardinality({ k \in DOMAIN items :
                                items[k].instance_id = i /\ items[k].layer_id = l }) = 1
    /\ \A p, q \in DOMAIN items :
           (p < q /\ items[p].instance_id = items[q].instance_id) =>
               IndexOf(LayerOrderOf(items[p].instance_id), items[p].layer_id)
                   < IndexOf(LayerOrderOf(items[p].instance_id), items[q].layer_id)

-----------------------------------------------------------------------------
(* duplicateCharacterInstance *)

\* no two instances share a list, a dict or a CharacterCustomComponents object
NoSharedObjects(I, ids) ==
    \A i, j \in Range(ids) :
        i # j => /\ I[i].lo # I[j].lo
                 /\ I[i].cl # I[j].cl
                 /\ I[i].li # I[j].li
                 /\ I[i].cc # I[j].cc

\* C6: the copy made by duplicateCharacterInstance has another instance_id and shares
\* no layer_order, composition_layers, layer_images or custom_components object with
\* the original: a later select, deselect, reorder or custom-component operation on
\* one instance leaves the other's layer_order, composition_layers keys and custom
\* components unchanged
C6_CopyIsIndependent ==
    [][/\ \A id \in InstanceIds :
              duplicateCharacterInstance(id) =>
                  /\ id # current_instance
                  /\ NoSharedObjects(inst', character_instances')
       /\ (LayerStep \/ ComponentStep) =>
              \A j \in Live \ { current_instance } :
                  /\ layer_order'[inst'[j].lo] = LayerOrderOf(j)
                  /\ composition_layers'[inst'[j].cl] = CompositionOf(j)
                  /\ layer_images'[inst'[j].li] = ImagesOf(j)
                  /\ custom_components'[inst'[j].cc] = ComponentsOf(j)]_vars

\* an original and its copy, DuplicateShift apart, after operations on one of them:
\* their layers and their custom components differ
C6_Witness ==
    \E o, c \in Live :
        /\ inst[c].x_offset = inst[o].x_offset + DuplicateShift
        /\ CompositionOf(o) # << >>
        /\ CompositionOf(c) # << >>
        /\ Range(CompositionOf(o)) # Range(CompositionOf(c))
        /\ LayerOrderOf(o) # LayerOrderOf(c)
        /\ ComponentsOf(o).components # ComponentsOf(c).components

\* C7: right after duplicateCharacterInstance the copy has the composition_layers
\* keys, the layer_order and the scale of the original, its x_offset and y_offset
\* shifted by 100, and the custom components the original holds
C7_CopyCarriesContent ==
    [][\A id \in InstanceIds :
           duplicateCharacterInstance(id) =>
               /\ Range(composition_layers'[inst'[id].cl]) = Range(CompositionOf(current_instance))
               /\ layer_order'[inst'[id].lo] = LayerOrderOf(current_instance)
               /\ inst'[id].scale = inst[current_instance].scale
               /\ inst'[id].x_offset = inst[current_instance].x_offset + 100
               /\ inst'[id].y_offset = inst[current_instance].y_offset + 100
               /\ custom_components'[inst'[id].cc].components
                      = ComponentsOf(current_instance).components]_vars

-----------------------------------------------------------------------------
(* saveScene, then loadScene *)

\* what the round trip is to keep of the k-th instance of a scene
Kept(ids, I, LO, CL, k) ==
    LET i == ids[k]
    IN [keys |-> Range(CL[I[i].cl]), layer_order |-> LO[I[i].lo],
        x_offset |-> I[i].x_offset, y_offset |-> I[i].y_offset, scale |-> I[i].scale,
        visible |-> I[i].visible, z_order |-> I[i].z_order]

\* every selected layer of every instance is in the catalog
AllLayersInCatalog ==
    \A i \in Live :
        Range(CompositionOf(i)) \subseteq CatalogIds(inst[i].character_name, inst[i].size)

\* C9: when every instance's selected layers exist in the catalog, saveScene followed
\* by loadScene yields, instance by instance in the saved order, the same
\* composition_layers keys, layer_order, x_offset, y_offset, scale, visible flag and
\* z_order
C9_SaveLoadRoundTrip ==
    [][(AllLayersInCatalog /\ scene_file = SceneData /\ LoadStep) =>
          /\ Len(character_instances') = Len(character_instances)
          /\ \A k \in 1..Len(character_instances) :
                 Kept(character_instances', inst', layer_order', composition_layers', k)
                     = Kept(character_instances, inst, layer_order, composition_layers, k)]_vars

\* a scene of two instances that differ in every kept field but the layers, loaded
\* from the file saveScene wrote for two other instances
C9_Witness ==
    /\ scene_file = SceneData
    /\ Len(character_instances) = 2
    /\ Range(character_instances) \cap { 1, 2 } = {}
    /\ LET a == inst[character_instances[1]]
           b == inst[character_instances[2]]
       IN /\ a.z_order > b.z_order
          /\ a.scale # b.scale
          /\ a.x_offset # b.x_offset
          /\ a.y_offset # b.y_offset
          /\ LayerOrderOf(character_instances[1]) # CompositionOf(character_instances[1])

-----------------------------------------------------------------------------
(* Export at a resolution multiplier *)

\* the offsets of a draw item from the canvas center, and its scale
OffsetX(item, m) == FSub(item.x, FromInt(CenterX(m)))
OffsetY(item, m) == FSub(item.y, FromInt(CenterY(m)))

\* the same instances and layers in the same order
SameOrder(items, base) ==
    /\ Len(items) = Len(base)
    /\ \A k \in DOMAIN items :
           /\ items[k].instance_id = base[k].instance_id
           /\ items[k].layer_id = base[k].layer_id

\* the offsets of every item under m are m times those under 1
OffsetsScale(m) ==
    LET items == renderCharactersForExport(m)
        base == renderCharactersForExport(1)
    IN \A k \in DOMAIN items \cap DOMAIN base :
           /\ OffsetX(items[k], m) = FMul(FromInt(m), OffsetX(base[k], 1))
           /\ OffsetY(items[k], m) = FMul(FromInt(m), OffsetY(base[k], 1))

\* the scale of every item under m is m times the one under 1
ScalesScale(m) ==
    LET items == renderCharactersForExport(m)
        base == renderCharactersForExport(1)
    IN \A k \in DOMAIN items \cap DOMAIN base :
           items[k].scale = FMul(FromInt(m), base[k].scale)

\* C5: for every multiplier m in 1..4 each draw item's offset from the canvas center
\* and its scale under m are exactly m times the item's offset and scale under 1,
\* and the items appear in the same order
C5_ExactlyMTimes ==
    \A m \in Multipliers :
        /\ SameOrder(renderCharactersForExport(m), renderCharactersForExport(1))
        /\ ScalesScale(m)
        /\ OffsetsScale(m)

\* C5 as amended: the order and the scale as claimed for every m in 1..4, the offsets
\* exactly m times for m in {1, 2, 4}
C5_ExactlyMTimesPowersOfTwo ==
    \A m \in Multipliers :
        /\ SameOrder(renderCharactersForExport(m), renderCharactersForExport(1))
        /\ ScalesScale(m)
        /\ m \in { 1, 2, 4 } => OffsetsScale(m)

\* two layers are drawn with scale 1.1 and an x_offset, and under multiplier 3 an
\* offset is not 3 times the offset under 1
C5_Witness ==
    /\ Len(renderCharactersForExport(1)) = 2
    /\ \E i \in Live : inst[i].scale = 110 /\ inst[i].x_offset = -30 /\ inst[i].y_offset = 20
    /\ ~OffsetsScale(3)

-----------------------------------------------------------------------------
(* loadScene that fails *)

LoadErrorStep ==
    \E file \in BrokenScenes :
        \E ids \in AnyFreshSeqs(LoadedBeforeError(file)) : loadSceneError(ids, file)

\* C11: if loadScene fails at any point (unreadable or malformed file, or a record
\* missing 'character_name' or 'size'), the set of character instances, their layer
\* state and the current instance are what they were before the load was attempted
C11_FailedLoadKeepsScene ==
    [][LoadErrorStep =>
          /\ character_instances' = character_instances
          /\ canvas_instances' = canvas_instances
          /\ inst' = inst
          /\ layer_order' = layer_order
          /\ composition_layers' = composition_layers
          /\ layer_images' = layer_images
          /\ current_instance' = current_instance]_vars

-----------------------------------------------------------------------------
(* Selecting a layer whose image file is missing *)

\* layer_id is active and has no image in the next state
ActiveImageless(layer_id) ==
    /\ Contains(composition_layers'[inst[current_instance].cl], layer_id)
    /\ Contains(layer_order'[inst[current_instance].lo], layer_id)
    /\ layer_id \notin layer_images'[inst[current_instance].li]

\* C12: selecting a catalog layer whose image asset is missing makes the layer
\* active: no select of such a layer ends with the layer_id missing from
\* composition_layers or layer_order, or with an entry in layer_images
C12_MissingAssetStillSelected ==
    \A l \in 1..3 :
        (current_instance # None
            /\ ~AssetExists(inst[current_instance].character_name,
                            inst[current_instance].size, l))
        => ~ENABLED (toggleLayer(l, TRUE) /\ ~ActiveImageless(l))

-----------------------------------------------------------------------------
(* Deselecting a layer *)

\* a list or the keys of a dict without layer_id, the others in their order
Without(s, layer_id) == FilterSeq(s, LAMBDA x : x # layer_id)

\* C13: deselecting a layer_id removes it from composition_layers, layer_images and
\* layer_order of the current instance and leaves every other layer's entries and
\* the relative order of the remaining ids unchanged; deselecting an id that is not
\* present changes nothing; no other instance is modified
C13_DeselectRemovesOnlyThatLayer ==
    [][\A l \in 1..3 :
           toggleLayer(l, FALSE) =>
               /\ composition_layers'[inst[current_instance].cl]
                      = Without(CompositionOf(current_instance), l)
               /\ layer_order'[inst[current_instance].lo]
                      = Without(LayerOrderOf(current_instance), l)
               /\ layer_images'[inst[current_instance].li] = ImagesOf(current_instance) \ {l}
               /\ (/\ ~Contains(CompositionOf(current_instance), l)
                   /\ ~Contains(LayerOrderOf(current_instance), l)
                   /\ l \notin ImagesOf(current_instance))
                  => /\ composition_layers' = composition_layers
                     /\ layer_order' = layer_order
                     /\ layer_images' = layer_images
               /\ inst' = inst
               /\ \A r \in InstanceIds :
                      /\ r # inst[current_instance].cl
                             => composition_layers'[r] = composition_layers[r]
                      /\ r # inst[current_instance].lo => layer_order'[r] = layer_order[r]
                      /\ r # inst[current_instance].li => layer_images'[r] = layer_images[r]
               /\ custom_components' = custom_components]_vars

\* the only instance has layer 2 selected and decoded, and layer 1 deselected while
\* its decode task is still queued
C13_Witness ==
    /\ used_ids = {1}
    /\ current_instance = 1
    /\ CompositionOf(1) = << 2 >>
    /\ LayerOrderOf(1) = << 2 >>
    /\ ImagesOf(1) = {2}
    /\ \E k \in DOMAIN tasks : tasks[k].layer_id = 1

-----------------------------------------------------------------------------
(* Reordering the layers *)

\* the layer_id of the row selected in layer_order_list
SelectedLayer == layer_order_list[layer_row + 1]

ReorderStep == moveLayerUp \/ moveLayerDown \/ moveLayerToTop \/ moveLayerToBottom

\* the number of times x occurs in s
Count(s, x) == Cardinality({ k \in DOMAIN s : s[k] = x })

SameMultiset(s, t) == \A x \in Range(s) \cup Range(t) : Count(s, x) = Count(t, x)

\* C14: moving the selected layer up when it is at the last position of layer_order,
\* and moving it down when it is at the first position, leave layer_order unchanged;
\* every reorder operation leaves the multiset of ids in layer_order unchanged
C14_ReorderAtEndIsNoOp ==
    [][/\ (moveLayerUp /\ SelectedLayer
                = LayerOrderOf(current_instance)[Len(LayerOrderOf(current_instance))])
           => layer_order' = layer_order
       /\ (moveLayerDown /\ SelectedLayer = LayerOrderOf(current_instance)[1])
           => layer_order' = layer_order
       /\ ReorderStep =>
              SameMultiset(layer_order'[inst[current_instance].lo],
                           LayerOrderOf(current_instance))]_vars

\* C15: 'move to top' applied to the layer selected in the layer-order list places
\* that layer_id at the last position of layer_order and preserves the relative order
\* of all other ids; 'move to bottom' places it at the first position
C15_MoveToTopMovesSelectedLayer ==
    [][/\ moveLayerToTop =>
              layer_order'[inst[current_instance].lo]
                  = Append(Without(LayerOrderOf(current_instance), SelectedLayer),
                           SelectedLayer)
       /\ moveLayerToBottom =>
              layer_order'[inst[current_instance].lo]
                  = << SelectedLayer >>
                        \o Without(LayerOrderOf(current_instance), SelectedLayer)]_vars

-----------------------------------------------------------------------------
(* Custom layers *)

\* 1-based position of the only occurrence of x in s
PositionOf(s, x) == CHOOSE k \in DOMAIN s : s[k] = x

\* the layer under existing_id has a hint strictly greater than h
GreaterHint(existing_id, h) == ZOrderOfLayer(InfoOf(current_instance), existing_id) > h

Imported ==
    LET id == CustomLayerId(CompositionOf(current_instance))
    IN /\ Contains(composition_layers'[inst[current_instance].cl], id)
       /\ id \in layer_images'[inst[current_instance].li]
       /\ Contains(layer_order'[inst[current_instance].lo], id)

\* C18: importing a custom layer for an existing image file, with a current instance
\* selected and no alignment-advisor result available, succeeds: no such import ends
\* without the layer in composition_layers, layer_images and layer_order
C18_ImportWithoutAdvisorSucceeds ==
    current_instance # None
        => ~ENABLED (importCustomLayer(TRUE, NoAdvisorResult) /\ ~Imported)

-----------------------------------------------------------------------------
(* CharacterCustomComponents *)

\* C19: component names are unique within a CharacterCustomComponents set in every
\* reachable state (add_component with a name already present is rejected)
C19_ComponentNamesUnique ==
    \A i \in Live :
        \A p, q \in DOMAIN ComponentsOf(i).components :
            p # q => ComponentsOf(i).components[p].name # ComponentsOf(i).components[q].name

\* the set of the current instance before and after a step, and the component added
Before == ComponentsOf(current_instance)
After == custom_components'[inst[current_instance].cc]
Added == After.components[Len(After.components)]

\* C20: the k-th component added without an explicit z_index after construction of
\* the set, or after clear_all, receives z_index 10000 + (k - 1), provided no
\* set_component_z_index, move_component_to_front or from_dict happened in between;
\* an add with an explicit z_index neither consumes nor changes the counter
C20_AutoZIndexCountsFromBaseline ==
    [][\A n \in ComponentNames :
           /\ (add_component(n, Omitted) /\ Before.rebases = 0) =>
                  /\ After.auto_added = Before.auto_added + 1
                  /\ Added.z_index = 10000 + (After.auto_added - 1)
           /\ \A z \in GivenZIndexes :
                  add_component(n, Given(z)) =>
                      /\ Added.z_index = z
                      /\ After.next_z_index = Before.next_z_index
                      /\ After.auto_added = Before.auto_added]_vars

\* three components, the second added with a z_index given and the third the second
\* one added without, in a set that was never rebased
C20_Witness ==
    /\ current_instance # None
    /\ Before.rebases = 0
    /\ Before.auto_added = 2
    /\ [k \in DOMAIN Before.components |-> Before.components[k].z_index]
           = << 10000, 10001, 10001 >>

-----------------------------------------------------------------------------
(* The z_index of the components and the order it gives *)

\* the place of the component at position k of components in get_components_sorted_by_z
PlaceInZOrder(components, k) == PositionOf(get_components_sorted_by_z(components), k)

\* a method given the component at position k left every other component as it was
OthersUnchanged(k) ==
    /\ Len(After.components) = Len(Before.components)
    /\ \A j \in DOMAIN Before.components :
           j # k => After.components[j] = Before.components[j]

\* C21: after set_component_z_index(c, v) the z_index of c is v and the counter is
\* max(counter before the call, v + 1), also when another component holds a z_index
\* greater than v
C21_SetZIndexAdvancesCounterPastValue ==
    [][\A k \in 1..MaxAdded, v \in GivenZIndexes :
           set_component_z_index(k, v) =>
               /\ After.components[k].z_index = v
               /\ After.next_z_index = MaxOf({ Before.next_z_index, v + 1 })]_vars

\* C22: in a set of N components, ties and negative z_index values included,
\* move_component_to_front(c) makes c the last of get_components_sorted_by_z() and
\* move_component_to_back(c) makes it the first; the z_index of every other
\* component is unchanged
C22_FrontIsLastBackIsFirst ==
    [][\A k \in 1..MaxAdded :
           /\ move_component_to_front(k) =>
                  /\ PlaceInZOrder(After.components, k) = Len(After.components)
                  /\ OthersUnchanged(k)
           /\ move_component_to_back(k) =>
                  /\ PlaceInZOrder(After.components, k) = 1
                  /\ OthersUnchanged(k)]_vars

\* two components added on one z_index, the first moved to the front and the second
\* then to the back, or the other way round
C22_Witness ==
    /\ current_instance # None
    /\ Before.rebases = 1
    /\ Before.nudges = 1
    /\ [k \in DOMAIN Before.components |-> Before.components[k].z_index] = << 6, 4 >>

\* the visible components whose bounding box contains (x, y), as positions
HitCandidates(components, x, y) ==
    { k \in DOMAIN components :
          components[k].visible /\ contains_point(components[k], x, y) }

\* the candidate that comes last in get_components_sorted_by_z, None without candidates
Topmost(components, x, y) ==
    LET candidates == HitCandidates(components, x, y)
    IN IF candidates = {} THEN None
       ELSE CHOOSE k \in candidates :
                \A j \in candidates :
                    PlaceInZOrder(components, j) <= PlaceInZOrder(components, k)

\* C23: get_component_at_position(x, y) returns, among the visible components whose
\* bounding box contains (x, y), the one that comes last in
\* get_components_sorted_by_z(), also when several candidates share a z_index, and
\* none when no visible component contains the point
C23_HitTestReturnsTopmost ==
    [][\A p \in HitPoints :
           get_component_at_position(p[1], p[2]) =>
               returned'.component = Topmost(Before.components, p[1], p[2])]_vars

\* C27: a component added without a z_index receives a z_index strictly greater
\* than that of every component already in the set, whatever add_component,
\* set_component_z_index and move_component_* calls came before
C27_AutoZIndexAboveEveryComponent ==
    [][\A n \in ComponentNames :
           add_component(n, Omitted) =>
               \A j \in DOMAIN Before.components :
                   Added.z_index > Before.components[j].z_index]_vars

\* C30: move_component_down never raises the z_index of the component and never
\* moves it later in get_components_sorted_by_z(), and move_component_up never
\* lowers the z_index, also after move_component_to_back made it negative
C30_NudgesAreMonotone ==
    [][\A k \in 1..MaxAdded :
           /\ move_component_down(k) =>
                  /\ After.components[k].z_index <= Before.components[k].z_index
                  /\ PlaceInZOrder(After.components, k)
                         <= PlaceInZOrder(Before.components, k)
           /\ move_component_up(k) =>
                  After.components[k].z_index >= Before.components[k].z_index]_vars

-----------------------------------------------------------------------------
(* Delivery of a decoded image *)

\* the layer ids that gain an image in instance i in this step
Gained(i) == layer_images'[inst[i].li] \ ImagesOf(i)

\* C24: a decode result delivered for a layer_id is stored in the layer_images of
\* an instance only if the layer_id is a key of its composition_layers at delivery
\* time: a result for a layer deselected since its task was queued is discarded
C24_ResultStoredOnlyIfStillSelected ==
    [][onImageLoaded =>
           \A i \in Live :
               /\ Gained(i) \subseteq { Head(signals).layer_id }
               /\ ~Contains(CompositionOf(i), Head(signals).layer_id)
                      => layer_images'[inst[i].li] = ImagesOf(i)]_vars

\* the result for layer 1 awaits delivery, and no instance has layer 1 selected
\* any more; another layer is selected
C24_Witness ==
    /\ signals # << >>
    /\ Head(signals).layer_id = 1
    /\ Live # {}
    /\ \A i \in Live : ~Contains(CompositionOf(i), 1)
    /\ \E i \in Live : Contains(CompositionOf(i), 2)

\* C28: the image decoded for a layer selected in one instance is stored only in
\* instances of the same archetype: no delivery gives layer_images[layer_id] of an
\* instance of another archetype that has the same layer_id selected
C28_ImageStaysWithinArchetype ==
    [][onImageLoaded =>
           \A i \in Live :
               Gained(i) # {} => inst[i].character_name = Head(signals).character_name]_vars

-----------------------------------------------------------------------------
(* The tasks of the ImageLoader *)

\* C25: every task submitted with addTask is processed, also one submitted while
\* run() is in progress: tasks.clear() at the end of run() never removes a task
\* that the loop has not processed
C25_NoTaskLost ==
    [][ImageLoaderClear => loader_i >= Len(tasks)]_vars

-----------------------------------------------------------------------------
(* Moving an instance to the front or to the back *)

\* in the next state instance i, if painted at all, is the last one painted by
\* paintEvent and by renderCharactersForExport
PaintedLast(i) ==
    inst'[i].visible =>
        /\ VisibleInOrder(canvas_instances)'[Len(VisibleInOrder(canvas_instances)')] = i
        /\ VisibleInOrder(character_instances)'[
               Len(VisibleInOrder(character_instances)')] = i

\* in the next state instance i, if painted at all, is the first one painted
PaintedFirst(i) ==
    inst'[i].visible =>
        /\ VisibleInOrder(canvas_instances)'[1] = i
        /\ VisibleInOrder(character_instances)'[1] = i

\* C29: in every scene state, several instances on one z_order included, after
\* moveCharacterToFront the current instance is painted after every other visible
\* instance and after moveCharacterToBack before every other one: no call of
\* either handler ends otherwise
C29_FrontPaintsLastBackPaintsFirst ==
    current_instance # None =>
        /\ ~ENABLED (moveCharacterToFront /\ ~PaintedLast(current_instance))
        /\ ~ENABLED (moveCharacterToBack /\ ~PaintedFirst(current_instance))

-----------------------------------------------------------------------------
(* The suggested layer type *)

\* the first category, in the order costume, expression, accessory, with a keyword
\* in the name, and the guess from the size when there is none
FirstMatchOrSize(layer_name, image_size) ==
    LET name_lower == Lower(layer_name)
        Matches(keywords) == \E keyword \in keywords : KeywordIn(keyword, name_lower)
    IN CASE Matches(CostumeKeywords) -> "costume"
         [] ~Matches(CostumeKeywords) /\ Matches(ExpressionKeywords) -> "expression"
         [] /\ ~Matches(CostumeKeywords) /\ ~Matches(ExpressionKeywords)
            /\ Matches(AccessoryKeywords) -> "accessory"
         [] OTHER ->
                CASE image_size[1] < 100 /\ image_size[2] < 100 -> "accessory"
                  [] /\ ~(image_size[1] < 100 /\ image_size[2] < 100)
                     /\ image_size[1] < 200 /\ image_size[2] < 200 -> "expression"
                  [] /\ ~(image_size[1] < 200 /\ image_size[2] < 200)
                     /\ (image_size[1] > 300 \/ image_size[2] > 300) -> "costume"
                  [] OTHER -> "custom"

\* C26: suggestLayerType returns the first category whose keyword list matches the
\* name, in the order costume, expression, accessory, and when no keyword matches,
\* for an empty name too, the result of the size heuristic
C26_FirstKeywordMatchOrSizeHeuristic ==
    [][\A layer_name \in LayerNames, width \in ImageSides, height \in ImageSides :
           suggestLayerType(layer_name, << width, height >>) =>
               returned'.layer_type = FirstMatchOrSize(layer_name, << width, height >>)]_vars

=============================================================================
